---------------------------- MODULE Spec2Model ----------------------------
(* A model of the darkroom analysis pipeline: the bounding-box normalizer,  *)
(* the response parser, the topic extractor, the encyclopedia client and    *)
(* the analyze_image / analyze_video request handlers.                      *)
EXTENDS Integers, Sequences, FiniteSets, TLC

VARIABLES
    \* a call of normalize_bounding_box: its arguments and what it returned
    bbox, image_width, image_height, normalized

VARIABLES
    \* a call of parse_gemini_json_response: its argument and its outcome
    response_text, parsed

VARIABLES
    \* a call of extract_topics_from_metadata: its argument and what it returned
    metadata, extracted_topics

VARIABLES
    \* a call of get_related_wikipedia_pages: its arguments, the list it
    \* builds, the searches issued so far (query, kind of answer, titles
    \* examined, titles among them that an earlier search had already
    \* brought in, the last title examined), where it stands and what it
    \* returned
    location, era, related_pages, searches, related_pc, related_result

VARIABLES
    \* a request to analyze_image or analyze_video: which of the two, whether
    \* the vision backend is configured, the user's context, the size of the
    \* image in the file
    operation, gemini_client, user_context, width, height,
    \* the stage the request is at, the calls made so far to the vision
    \* backend and the encyclopedia, and the stage that raised, if any
    analysis_pc, calls, failed_at,
    \* the locals of the request (link_pages is the local related_pages)
    wikipedia_data, link_pages, prompt, result, bounding_box,
    \* the lookups made for the links after the metadata was handled, each
    \* with its outcome
    link_lookups,
    \* what the request returned
    analysis_result

VARIABLES
    \* a call of fetch_wikipedia_page (on the title held by location),
    \* fetch_wikipedia_context or fetch_multiple_wikipedia_pages: which of
    \* them, the topics passed, where the call stands, the requests sent so
    \* far, the outcome of the latest, the mapping being built and what the
    \* call returned
    fetch_op, fetch_topics, fetch_pc, requests, last_response, combined, fetch_result

VARIABLES
    \* a call of restore_image: its colorize argument, whether the file at
    \* image_path can be opened as an image, where the call stands, the
    \* response of the model, what the file at output_path holds and what the
    \* call returned
    colorize, input_readable, restore_pc, response, output_file, restore_result,
    \* the year restore_image or generate_video_from_image put in its prompt
    year_info

VARIABLES
    \* a call of generate_video_from_image: where it stands, the seconds
    \* counted by the poll loop, the operation object it holds, the calls it
    \* made (the submission, each sleep, each poll, the download) and what
    \* it returned
    video_pc, wait_time, video_operation, video_calls, video_result

VARIABLES
    \* a call of crop_image on the box held by bbox and an image of
    \* image_width x image_height: the rectangle handed to img.crop
    cropped

VARIABLES
    \* the server and its clients: what each client uploads, the files of
    \* the uploads and outputs directories (for each path, the client whose
    \* media the file was made from), where each client stands and the media
    \* each result handed to a client was computed from
    uploads, files, route_pc, derived

boxVars == <<bbox, image_width, image_height, normalized>>
parseVars == <<response_text, parsed>>
topicVars == <<metadata, extracted_topics>>
relatedVars == <<location, era, related_pages, searches, related_pc, related_result>>
analysisVars ==
    <<operation, gemini_client, user_context, width, height, analysis_pc, calls,
      failed_at, wikipedia_data, link_pages, prompt, result, bounding_box,
      link_lookups, analysis_result>>
fetchVars ==
    <<fetch_op, fetch_topics, fetch_pc, requests, last_response, combined, fetch_result>>
restoreVars ==
    <<colorize, input_readable, restore_pc, response, output_file, restore_result,
      year_info>>
routeVars == <<uploads, files, route_pc, derived>>
videoVars == <<video_pc, wait_time, video_operation, video_calls, video_result>>
vars ==
    <<boxVars, parseVars, topicVars, relatedVars, analysisVars, fetchVars, restoreVars,
      videoVars, cropped, routeVars>>

\* the variables each component leaves alone
notBox ==
    <<parseVars, topicVars, relatedVars, analysisVars, fetchVars, restoreVars,
      videoVars, cropped, routeVars>>
notParse ==
    <<boxVars, topicVars, relatedVars, analysisVars, fetchVars, restoreVars,
      videoVars, cropped, routeVars>>
notTopics ==
    <<boxVars, parseVars, relatedVars, analysisVars, fetchVars, restoreVars,
      videoVars, cropped, routeVars>>
notRelated ==
    <<boxVars, parseVars, topicVars, analysisVars, fetchVars, restoreVars,
      videoVars, cropped, routeVars>>

(***************************************************************************)
(* Bounds of the model.                                                    *)
(***************************************************************************)
\* image sides range over 1..MaxDim in the calls the model explores
MaxDim == 3
\* image sides up to MaxSide are covered for the default (all-missing) box
MaxSide == 1200
\* response texts have up to MaxText characters
MaxText == 6
\* a search answers with up to MaxTitles titles
MaxTitles == 2
\* fetch_multiple_wikipedia_pages is passed up to MaxTopics topics
MaxTopics == 3

(***************************************************************************)
(* Python floats.  image_width * 0.1, image_width * 0.8 and                *)
(* width - 2 * margin_w are IEEE-754 double operations: the exact result   *)
(* rounded to 53 significant bits, ties to even.  A non-negative double    *)
(* below 2^15 is held exactly as a fixed-point number: five limbs of 15    *)
(* bits, least significant first, in units of 2^-60 (the fifth limb is the *)
(* integer part).                                                          *)
(***************************************************************************)
Base == 32768

RECURSIVE Pow2(_)
Pow2(n) == IF n = 0 THEN 1 ELSE 2 * Pow2(n - 1)

RECURSIVE BitLen(_)
BitLen(n) == IF n = 0 THEN 0 ELSE 1 + BitLen(n \div 2)

\* the double nearest to 0.1 (0x1.999999999999ap-4) and to 0.8 (0x1.999999999999ap-1)
Float01 == <<6560, 13107, 26214, 3276, 0>>
Float08 == <<19712, 6553, 13107, 26214, 0>>

\* int -> float conversion of a small non-negative integer (exact)
FloatOfInt(n) == <<0, 0, 0, 0, n>>

\* limbs with carries propagated, from digits that may exceed Base
RECURSIVE Carry(_, _, _)
Carry(d, i, c) ==
    IF i > Len(d) THEN <<>>
    ELSE <<(d[i] + c) % Base>> \o Carry(d, i + 1, (d[i] + c) \div Base)

BigMulSmall(a, n) == Carry([i \in 1..Len(a) |-> a[i] * n], 1, 0)

\* a - b for a >= b
RECURSIVE Borrow(_, _, _, _)
Borrow(a, b, i, c) ==
    IF i > Len(a) THEN <<>>
    ELSE LET d == a[i] - b[i] - c
         IN  <<IF d < 0 THEN d + Base ELSE d>>
             \o Borrow(a, b, i + 1, IF d < 0 THEN 1 ELSE 0)

BigSub(a, b) == Borrow(a, b, 1, 0)

RECURSIVE BigBitLen(_, _)
BigBitLen(a, i) ==
    IF i = 0 THEN 0
    ELSE IF a[i] # 0 THEN 15 * (i - 1) + BitLen(a[i])
    ELSE BigBitLen(a, i - 1)

\* round an exact result to the nearest double, ties to even
RoundDouble(a) ==
    LET s == BigBitLen(a, Len(a)) - 53
    IN  IF s <= 0 THEN a
        ELSE LET low  == a[1] + a[2] * Base
                 q    == low \div Pow2(s)
                 r    == low % Pow2(s)
                 half == Pow2(s - 1)
                 up   == IF r > half \/ (r = half /\ q % 2 = 1) THEN 1 ELSE 0
                 new  == (q + up) * Pow2(s)
             IN  Carry(<<new % Base, new \div Base, a[3], a[4], a[5]>>, 1, 0)

\* float * float for an integer left operand
FloatMul(n, f) == RoundDouble(BigMulSmall(f, n))

\* float - float
FloatSub(a, b) == RoundDouble(BigSub(a, b))

\* a slip: round() where int() is meant (nearest integer, not truncation)
TruncRounds(a) == IF a[4] >= Base \div 2 THEN a[5] + 1 ELSE a[5]

\* int(float): truncation toward zero of a non-negative float
Trunc(a) == a[5]

(***************************************************************************)
(* JSON values a parsed payload can hold in a bounding-box field.          *)
(***************************************************************************)
Missing == [kind |-> "missing", val |-> 0]
JNull   == [kind |-> "null", val |-> 0]
JText   == [kind |-> "text", val |-> 0]
JObject == [kind |-> "object", val |-> 0]
JInt(n) == [kind |-> "int", val |-> n]

IntVals == {JInt(n) : n \in -1 .. MaxDim + 1}
NonNumeric == {JNull, JText, JObject}
FieldVals == {Missing} \cup IntVals \cup NonNumeric

Dims == 1 .. MaxDim

(***************************************************************************)
(* normalize_bounding_box                                                  *)
(***************************************************************************)
Max(a, b) == IF a >= b THEN a ELSE b
Min(a, b) == IF a <= b THEN a ELSE b

\* bbox.get(key, default) followed by int(): the default is a float
\* int(None), int({}) raise TypeError; int("abc") raises ValueError
IntOfField(v, default) ==
    CASE v.kind = "missing" -> [error |-> "none", val |-> Trunc(default)]
      [] v.kind = "int"     -> [error |-> "none", val |-> v.val]
      [] v.kind = "text"    -> [error |-> "ValueError", val |-> 0]
      [] OTHER              -> [error |-> "TypeError", val |-> 0]

Raised(err) == [error |-> err, x |-> 0, y |-> 0, width |-> 0, height |-> 0]

Box(x, y, w, h) == [error |-> "none", x |-> x, y |-> y, width |-> w, height |-> h]

\* a slip: x and y clamped to the image size instead of the last pixel
ClampBoxOffByOne(px, py, pw, ph, w, h) ==
    LET x == Max(0, Min(px, w))
        y == Max(0, Min(py, h))
        bbox_width  == Max(1, Min(pw, w - x))
        bbox_height == Max(1, Min(ph, h - y))
    IN  Box(x, y, bbox_width, bbox_height)

\* the clamp of lines 27-30 (w, h: image_width, image_height); the
\* low-coverage warning of lines 33-36 only prints and leaves the box alone
ClampBox(px, py, pw, ph, w, h) ==
    LET x == Max(0, Min(px, w - 1))
        y == Max(0, Min(py, h - 1))
        bbox_width  == Max(1, Min(pw, w - x))
        bbox_height == Max(1, Min(ph, h - y))
    IN  Box(x, y, bbox_width, bbox_height)

\* raw: the bbox argument; w, h: image_width, image_height
normalize_bounding_box(raw, w, h) ==
    LET px == IntOfField(raw.x, FloatMul(w, Float01))
        py == IntOfField(raw.y, FloatMul(h, Float01))
        pw == IntOfField(raw.width, FloatMul(w, Float08))
        ph == IntOfField(raw.height, FloatMul(h, Float08))
    IN  IF px.error # "none" THEN Raised(px.error)
        ELSE IF py.error # "none" THEN Raised(py.error)
        ELSE IF pw.error # "none" THEN Raised(pw.error)
        ELSE IF ph.error # "none" THEN Raised(ph.error)
        ELSE ClampBox(px.val, py.val, pw.val, ph.val, w, h)

(***************************************************************************)
(* parse_gemini_json_response.  A response text is a sequence of           *)
(* characters; the model's alphabet has the two braces, a digit, a quote,  *)
(* a prose letter and "k", which stands for a key with its colon ("a":).   *)
(* json.loads accepts exactly one value over the whole string:             *)
(*   value ::= "{" "}" | "{" k value "}" | digit+ | quote non-quote* quote *)
(***************************************************************************)
Chars == {"{", "}", "k", "1", "p", "q"}

Texts == UNION {[1 .. n -> Chars] : n \in 0 .. MaxText}

\* the index after the JSON value that starts at s[i], or 0 if there is none
RECURSIVE ValueEnd(_, _)
ValueEnd(s, i) ==
    IF i > Len(s) THEN 0
    ELSE CASE s[i] = "1" ->
                IF i + 1 <= Len(s) /\ s[i + 1] = "1" THEN ValueEnd(s, i + 1) ELSE i + 1
           [] s[i] = "q" ->
                LET closing == {j \in i + 1 .. Len(s) : s[j] = "q"}
                IN  IF closing = {} THEN 0
                    ELSE (CHOOSE j \in closing : \A j2 \in closing : j <= j2) + 1
           [] s[i] = "{" ->
                IF i + 1 > Len(s) THEN 0
                ELSE IF s[i + 1] = "}" THEN i + 2
                ELSE IF s[i + 1] # "k" THEN 0
                ELSE LET j == ValueEnd(s, i + 2)
                     IN  IF j # 0 /\ j <= Len(s) /\ s[j] = "}" THEN j + 1 ELSE 0
           [] OTHER -> 0

\* json.loads(s) succeeds: one value and nothing after it
Decodes(s) == ValueEnd(s, 1) = Len(s) + 1

\* the value json.loads(s) returns for a text that decodes
JsonValue(s) ==
    [type |-> CASE s[1] = "{" -> "object" [] s[1] = "q" -> "string" [] OTHER -> "number",
     text |-> s]

\* a slip: a lazy star, which stops at the first "}" after the "{"
RegexSearchLazy(s) ==
    LET starts == {i \in 1 .. Len(s) : s[i] = "{" /\ \E j \in i + 1 .. Len(s) : s[j] = "}"}
    IN  IF starts = {} THEN [found |-> FALSE, start |-> 0, end |-> 0]
        ELSE LET i == CHOOSE i \in starts : \A i2 \in starts : i <= i2
                 ends == {j \in i + 1 .. Len(s) : s[j] = "}"}
             IN  [found |-> TRUE, start |-> i,
                  end |-> CHOOSE j \in ends : \A j2 \in ends : j <= j2]

\* re.search(r'\{[\s\S]*\}', s): the leftmost "{" that has a "}" after it,
\* and, the star being greedy, the last "}" of the text
RegexSearch(s) ==
    LET starts == {i \in 1 .. Len(s) : s[i] = "{" /\ \E j \in i + 1 .. Len(s) : s[j] = "}"}
    IN  IF starts = {} THEN [found |-> FALSE, start |-> 0, end |-> 0]
        ELSE LET i == CHOOSE i \in starts : \A i2 \in starts : i <= i2
                 ends == {j \in i + 1 .. Len(s) : s[j] = "}"}
             IN  [found |-> TRUE, start |-> i,
                  end |-> CHOOSE j \in ends : \A j2 \in ends : j >= j2]

NotParsed == [error |-> "pending", value |-> [type |-> "none", text |-> <<>>]]
ParseError == [error |-> "ValueError", value |-> [type |-> "none", text |-> <<>>]]
Parsed(v) == [error |-> "none", value |-> v]

parse_gemini_json_response(s) ==
    LET json_match == RegexSearch(s)
        group == SubSeq(s, json_match.start, json_match.end)
    IN  IF json_match.found /\ Decodes(group) THEN Parsed(JsonValue(group))
        ELSE IF Decodes(s) THEN Parsed(JsonValue(s))
        ELSE ParseError

(***************************************************************************)
(* Text.  A Python str is a sequence of one-character strings.             *)
(***************************************************************************)
UpperCase == {"A", "B", "C", "D", "E", "F", "G", "H", "I", "J", "K", "L", "M",
              "N", "O", "P", "Q", "R", "S", "T", "U", "V", "W", "X", "Y", "Z"}
LowerCase == {"a", "b", "c", "d", "e", "f", "g", "h", "i", "j", "k", "l", "m",
              "n", "o", "p", "q", "r", "s", "t", "u", "v", "w", "x", "y", "z"}
Digits == {"0", "1", "2", "3", "4", "5", "6", "7", "8", "9"}
\* \w and \s of the re module
WordChars == UpperCase \cup LowerCase \cup Digits \cup {"_"}
Spaces == {" "}

ToLower ==
    [c \in UpperCase |->
        CASE c = "A" -> "a" [] c = "B" -> "b" [] c = "C" -> "c" [] c = "D" -> "d"
          [] c = "E" -> "e" [] c = "F" -> "f" [] c = "G" -> "g" [] c = "H" -> "h"
          [] c = "I" -> "i" [] c = "J" -> "j" [] c = "K" -> "k" [] c = "L" -> "l"
          [] c = "M" -> "m" [] c = "N" -> "n" [] c = "O" -> "o" [] c = "P" -> "p"
          [] c = "Q" -> "q" [] c = "R" -> "r" [] c = "S" -> "s" [] c = "T" -> "t"
          [] c = "U" -> "u" [] c = "V" -> "v" [] c = "W" -> "w" [] c = "X" -> "x"
          [] c = "Y" -> "y" [] OTHER -> "z"]

\* str.lower()
Lower(s) == [i \in 1 .. Len(s) |-> IF s[i] \in UpperCase THEN ToLower[s[i]] ELSE s[i]]

\* needle in s (substring test)
Contains(s, needle) ==
    \E i \in 0 .. Len(s) - Len(needle) :
        \A j \in 1 .. Len(needle) : s[i + j] = needle[j]

\* s has needle at index i
HasAt(s, i, needle) ==
    /\ i + Len(needle) - 1 <= Len(s)
    /\ \A j \in 1 .. Len(needle) : s[i + j - 1] = needle[j]

\* " ".join(parts)
RECURSIVE JoinSpace(_)
JoinSpace(parts) ==
    IF parts = <<>> THEN <<>>
    ELSE IF Len(parts) = 1 THEN parts[1]
    ELSE parts[1] \o <<" ">> \o JoinSpace(Tail(parts))

\* the elements of a list
Elems(list) == {list[i] : i \in 1 .. Len(list)}

\* texts the calls are tried on: locations, page titles, metadata texts,
\* a topic and a user context
Sample ==
    [Paris |-> <<"P", "a", "r", "i", "s">>,
     ParisFrance |-> <<"P", "a", "r", "i", "s", ",", " ", "F", "r", "a", "n",
            "c", "e">>,
     ParisDisambiguation |-> <<"P", "a", "r", "i", "s", " ", "(", "d", "i", "s",
            "a", "m", "b", "i", "g", "u", "a", "t", "i", "o", "n", ")">>,
     ParisOlympics |-> <<"P", "a", "r", "i", "s", " ", "O", "l", "y", "m", "p",
            "i", "c", "s">>,
     HistoryOfParis |-> <<"H", "i", "s", "t", "o", "r", "y", " ", "o", "f", " ",
            "P", "a", "r", "i", "s">>,
     ParisCommune |-> <<"P", "a", "r", "i", "s", " ", "C", "o", "m", "m", "u",
            "n", "e">>,
     FrenchRevolution |-> <<"F", "r", "e", "n", "c", "h", " ", "R", "e", "v",
            "o", "l", "u", "t", "i", "o", "n">>,
     EiffelTower |-> <<"E", "i", "f", "f", "e", "l", " ", "T", "o", "w", "e",
            "r">>,
     CivilRightsSentence |-> <<"T", "h", "e", " ", "C", "i", "v", "i", "l", " ",
            "R", "i", "g", "h", "t", "s", " ", "M", "o", "v", "e", "m",
            "e", "n", "t", " ", "c", "h", "a", "n", "g", "e", "d", " ",
            "t", "h", "e", " ", "S", "o", "u", "t", "h", ".">>,
     ColdWar |-> <<"C", "o", "l", "d", " ", "W", "a", "r">>,
     NewYork |-> <<"N", "e", "w", " ", "Y", "o", "r", "k">>,
     WorldWarII |-> <<"W", "o", "r", "l", "d", " ", "W", "a", "r", " ", "I",
            "I">>,
     KoreanVietnam |-> <<"t", "h", "e", " ", "K", "o", "r", "e", "a", "n", " ",
            "W", "a", "r", " ", "a", "n", "d", " ", "t", "h", "e", " ",
            "V", "i", "e", "t", "n", "a", "m", " ", "W", "a", "r", ".">>,
     FrenchParis |-> <<"F", "r", "e", "n", "c", "h", " ", "R", "e", "v", "o",
            "l", "u", "t", "i", "o", "n", ",", " ", "P", "a", "r", "i",
            "s", " ", "T", "r", "e", "a", "t", "y">>,
     JazzAge |-> <<"J", "a", "z", "z", " ", "A", "g", "e">>,
     CivilRightsMovement |-> <<"C", "i", "v", "i", "l", " ", "R", "i", "g", "h",
            "t", "s", " ", "M", "o", "v", "e", "m", "e", "n", "t">>,
     FamilyTrip |-> <<"F", "a", "m", "i", "l", "y", " ", "t", "r", "i", "p">>]

(***************************************************************************)
(* extract_topics_from_metadata                                            *)
(***************************************************************************)
skip_words == {
    <<"U", "n", "i", "t", "e", "d", " ", "S", "t", "a", "t", "e", "s">>,
    <<"U", "n", "i", "t", "e", "d", " ", "K", "i", "n", "g", "d", "o", "m">>,
    <<"N", "e", "w", " ", "Y", "o", "r", "k">>,
    <<"L", "o", "s", " ", "A", "n", "g", "e", "l", "e", "s">>,
    <<"W", "o", "r", "l", "d", " ", "W", "a", "r">>,
    <<"W", "o", "r", "l", "d", " ", "W", "a", "r", " ", "I">>,
    <<"W", "o", "r", "l", "d", " ", "W", "a", "r", " ", "I", "I">>}

historical_keywords == <<
    <<"w", "a", "r">>,
    <<"m", "o", "v", "e", "m", "e", "n", "t">>,
    <<"r", "e", "v", "o", "l", "u", "t", "i", "o", "n">>,
    <<"p", "e", "r", "i", "o", "d">>,
    <<"e", "r", "a">>,
    <<"d", "e", "c", "a", "d", "e">>,
    <<"n", "a", "v", "y">>,
    <<"a", "r", "m", "y">>,
    <<"m", "i", "l", "i", "t", "a", "r", "y">>,
    <<"r", "e", "g", "i", "m", "e", "n", "t">>,
    <<"b", "a", "t", "t", "a", "l", "i", "o", "n">>,
    <<"a", "c", "t">>,
    <<"l", "a", "w">>,
    <<"t", "r", "e", "a", "t", "y">>,
    <<"c", "o", "n", "v", "e", "n", "t", "i", "o", "n">>,
    <<"o", "r", "g", "a", "n", "i", "z", "a", "t", "i", "o", "n">>,
    <<"s", "o", "c", "i", "e", "t", "y">>,
    <<"a", "s", "s", "o", "c", "i", "a", "t", "i", "o", "n">>,
    <<"u", "n", "i", "o", "n">>,
    <<"d", "y", "n", "a", "s", "t", "y">>,
    <<"e", "m", "p", "i", "r", "e">>,
    <<"k", "i", "n", "g", "d", "o", "m">>,
    <<"r", "e", "p", "u", "b", "l", "i", "c">>>>

\* War|Movement|Revolution|Act|Treaty|Convention, in the order the regex tries them
PatternWords == <<
    <<"W", "a", "r">>,
    <<"M", "o", "v", "e", "m", "e", "n", "t">>,
    <<"R", "e", "v", "o", "l", "u", "t", "i", "o", "n">>,
    <<"A", "c", "t">>,
    <<"T", "r", "e", "a", "t", "y">>,
    <<"C", "o", "n", "v", "e", "n", "t", "i", "o", "n">>>>

\* the index of the last character of the longest run of characters of set
\* that starts at s[i] (i - 1 if s[i] is not in set)
RECURSIVE RunEnd(_, _, _)
RunEnd(s, i, set) ==
    IF i <= Len(s) /\ s[i] \in set THEN RunEnd(s, i + 1, set) ELSE i - 1

\* [A-Z][a-z]+ at s[i]: the index of its last character, or 0.  What follows
\* it in both patterns (\s or \b) cannot follow a shorter run of letters.
CapWordEnd(s, i) ==
    IF i + 1 <= Len(s) /\ s[i] \in UpperCase /\ s[i + 1] \in LowerCase
    THEN RunEnd(s, i + 1, LowerCase)
    ELSE 0

\* \s+[A-Z][a-z]+ after a word that ended at s[e]: the end of that next word, or 0
NextWordEnd(s, e) ==
    IF e = 0 \/ e + 1 > Len(s) \/ s[e + 1] \notin Spaces THEN 0
    ELSE CapWordEnd(s, RunEnd(s, e + 1, Spaces) + 1)

\* \b before the word character s[i], and after the word character s[e]
BoundaryBefore(s, i) == i = 1 \/ s[i - 1] \notin WordChars
BoundaryAfter(s, e) == e = Len(s) \/ s[e + 1] \notin WordChars

\* \b([A-Z][a-z]+(?:\s+[A-Z][a-z]+){1,3})\b at s[i]: the index of the last
\* character of the match, or 0.  The repetition is greedy and gives words
\* back until the closing \b holds.
CapitalizedMatchEnd(s, i) ==
    IF ~BoundaryBefore(s, i) \/ CapWordEnd(s, i) = 0 THEN 0
    ELSE LET e1 == CapWordEnd(s, i)
             e2 == NextWordEnd(s, e1)
             e3 == NextWordEnd(s, e2)
             e4 == NextWordEnd(s, e3)
             ends == <<e1, e2, e3, e4>>
             fits == {k \in 2 .. 4 : ends[k] # 0 /\ BoundaryAfter(s, ends[k])}
         IN  IF fits = {} THEN 0
             ELSE ends[CHOOSE k \in fits : \A k2 \in fits : k >= k2]

\* re.findall scanning from index i: found[j] is the match of the pattern at
\* index j (its end, 0 for no match, and the item findall lists for it); the
\* scan takes the first index from i that has a match and resumes after the
\* end of that match
RECURSIVE FindAll(_, _)
FindAll(found, i) ==
    LET starts == {j \in i .. Len(found) : found[j].end # 0}
    IN  IF starts = {} THEN <<>>
        ELSE LET j == CHOOSE j \in starts : \A j2 \in starts : j <= j2
             IN  <<found[j].item>> \o FindAll(found, found[j].end + 1)

\* re.findall(capitalized_pattern, s), scanning from s[i]
CapitalizedMatches(s, i) ==
    FindAll([j \in 1 .. Len(s) |->
                [end |-> CapitalizedMatchEnd(s, j),
                 item |-> SubSeq(s, j, CapitalizedMatchEnd(s, j))]], i)

\* \b([A-Z][a-z]+)\s+(War|Movement|Revolution|Act|Treaty|Convention)\b at
\* s[i]: the end of the match and the two groups joined by a space
PatternMatch(s, i) ==
    LET e1 == IF BoundaryBefore(s, i) THEN CapWordEnd(s, i) ELSE 0
        j  == IF e1 # 0 /\ e1 + 1 <= Len(s) /\ s[e1 + 1] \in Spaces
              THEN RunEnd(s, e1 + 1, Spaces) + 1 ELSE 0
        alts == {k \in 1 .. Len(PatternWords) :
                    /\ j # 0
                    /\ HasAt(s, j, PatternWords[k])
                    /\ BoundaryAfter(s, j + Len(PatternWords[k]) - 1)}
    IN  IF alts = {} THEN [end |-> 0, topic |-> <<>>]
        ELSE LET k == CHOOSE k \in alts : \A k2 \in alts : k <= k2
             IN  [end |-> j + Len(PatternWords[k]) - 1,
                  topic |-> SubSeq(s, i, e1) \o <<" ">> \o PatternWords[k]]

\* the topics " ".join(match) of re.findall(pattern, s), scanning from s[i]
PatternTopics(s, i) ==
    FindAll([j \in 1 .. Len(s) |->
                [end |-> PatternMatch(s, j).end, item |-> PatternMatch(s, j).topic]], i)

\* re.match(r'^\d{4}', m)
StartsWithYear(m) == Len(m) >= 4 /\ \A i \in 1 .. 4 : m[i] \in Digits

\* len(m.split())
WordCount(m) ==
    Cardinality({i \in 1 .. Len(m) :
                    m[i] \notin Spaces /\ (i = 1 \/ m[i - 1] \in Spaces)})

HasHistoricalKeyword(m) ==
    \E k \in 1 .. Len(historical_keywords) : Contains(Lower(m), historical_keywords[k])

\* the first loop (lines 51-58) over the matches from index i on
RECURSIVE FirstPass(_, _, _)
FirstPass(matches, i, topics) ==
    IF i > Len(matches) THEN topics
    ELSE LET match == matches[i]
         IN  IF match \in skip_words \/ StartsWithYear(match)
             THEN FirstPass(matches, i + 1, topics)
             ELSE IF /\ (WordCount(match) >= 2 \/ HasHistoricalKeyword(match))
                     /\ match \notin Elems(topics)
             THEN IF Len(topics) + 1 >= 5 THEN Append(topics, match)
                  ELSE FirstPass(matches, i + 1, Append(topics, match))
             ELSE FirstPass(matches, i + 1, topics)

\* the second loop (lines 62-67) over the pattern topics from index i on
RECURSIVE SecondPass(_, _, _)
SecondPass(found, i, topics) ==
    IF i > Len(found) THEN topics
    ELSE IF found[i] \notin Elems(topics)
    THEN IF Len(topics) + 1 >= 5 THEN Append(topics, found[i])
         ELSE SecondPass(found, i + 1, Append(topics, found[i]))
    ELSE SecondPass(found, i + 1, topics)

\* lines 26-39: the text fields that are present and not empty, joined by a space
TextFields(md) ==
    LET present(t) == IF t = <<>> THEN <<>> ELSE <<t>>
        clothing == md.clothing_analysis
    IN  present(md.notes) \o present(md.historical_context)
        \o present(md.socioeconomic_inference)
        \o present(md.lifestyle_insights)
        \o (CASE clothing.kind = "mapping" ->
                    present(clothing.styles) \o present(clothing.materials)
                    \o present(clothing.significance)
              [] clothing.kind = "text" -> <<clothing.text>>
              [] OTHER -> <<>>)

CombinedText(md) == JoinSpace(TextFields(md))

\* a slip: the pattern topics collected before the capitalized phrases
ExtractTopicsPatternFirst(md) ==
    LET combined_text == CombinedText(md)
        first == SecondPass(PatternTopics(combined_text, 1), 1, <<>>)
        topics == IF Len(first) >= 5 THEN first
                  ELSE FirstPass(CapitalizedMatches(combined_text, 1), 1, first)
    IN  SubSeq(topics, 1, Min(5, Len(topics)))

\* a slip: the final cut to five topics left out
ExtractTopicsUncut(md) ==
    LET combined_text == CombinedText(md)
    IN  SecondPass(PatternTopics(combined_text, 1), 1,
                   FirstPass(CapitalizedMatches(combined_text, 1), 1, <<>>))

extract_topics_from_metadata(md) ==
    LET combined_text == CombinedText(md)
        matches == CapitalizedMatches(combined_text, 1)
        pattern_matches == PatternTopics(combined_text, 1)
        topics == SecondPass(pattern_matches, 1, FirstPass(matches, 1, <<>>))
    IN  SubSeq(topics, 1, Min(5, Len(topics)))

(***************************************************************************)
(* get_related_wikipedia_pages                                             *)
(***************************************************************************)
\* s.split(',')[0]: the text before the first comma
BeforeComma(s) ==
    LET commas == {i \in 1 .. Len(s) : s[i] = ","}
    IN  IF commas = {} THEN s
        ELSE SubSeq(s, 1, (CHOOSE i \in commas : \A j \in commas : i <= j) - 1)

\* s.strip()
Strip(s) ==
    LET kept == {i \in 1 .. Len(s) : s[i] \notin Spaces}
    IN  IF kept = {} THEN <<>>
        ELSE SubSeq(s, CHOOSE i \in kept : \A j \in kept : i <= j,
                       CHOOSE i \in kept : \A j \in kept : i >= j)

\* location.split(',')[0].strip()
CleanedLocation(loc) == Strip(BeforeComma(loc))

HistoryOf == <<"H", "i", "s", "t", "o", "r", "y", " ", "o", "f", " ">>

\* a slip: the search for the history of the location issued first
SearchQueriesHistoryFirst(loc, e) ==
    LET cleaned_location == CleanedLocation(loc)
    IN  <<HistoryOf \o cleaned_location,
          cleaned_location \o <<" ">> \o e,
          e \o <<" ">> \o cleaned_location>>

\* the three searches, in the order of the list search_queries
SearchQueries(loc, e) ==
    LET cleaned_location == CleanedLocation(loc)
    IN  <<cleaned_location \o <<" ">> \o e,
          e \o <<" ">> \o cleaned_location,
          HistoryOf \o cleaned_location>>

skip_keywords == <<
    <<"o", "l", "y", "m", "p", "i", "c", "s">>,
    <<"p", "a", "r", "a", "l", "y", "m", "p", "i", "c", "s">>,
    <<"s", "p", "o", "r", "t">>,
    <<"f", "o", "o", "t", "b", "a", "l", "l">>,
    <<"b", "a", "s", "k", "e", "t", "b", "a", "l", "l">>,
    <<"b", "a", "s", "e", "b", "a", "l", "l">>,
    <<"s", "o", "c", "c", "e", "r">>,
    <<"c", "h", "a", "m", "p", "i", "o", "n", "s", "h", "i", "p">>,
    <<"t", "o", "u", "r", "n", "a", "m", "e", "n", "t">>>>

related_keywords == <<
    <<"w", "a", "r">>,
    <<"m", "o", "v", "e", "m", "e", "n", "t">>,
    <<"r", "e", "v", "o", "l", "u", "t", "i", "o", "n">>,
    <<"p", "e", "r", "i", "o", "d">>,
    <<"e", "r", "a">>,
    <<"d", "e", "c", "a", "d", "e">>>>

Disambiguation == <<"d", "i", "s", "a", "m", "b", "i", "g", "u", "a", "t", "i", "o", "n">>
History == <<"h", "i", "s", "t", "o", "r", "y">>

MidCentury ==
    <<"m", "i", "d", "-", "2", "0", "t", "h", " ", "c", "e", "n", "t", "u",
      "r", "y">>

Locations == {Sample.Paris, Sample.ParisFrance}
Eras == {MidCentury}
Titles ==
    {Sample.Paris, Sample.ParisFrance, Sample.ParisDisambiguation,
     Sample.ParisOlympics, Sample.HistoryOfParis, Sample.ParisCommune,
     Sample.FrenchRevolution, Sample.EiffelTower}

\* lines 100-111: the title is the location itself, a disambiguation page,
\* or has one of the skip keywords
IsSkipped(title, loc) ==
    LET title_lower == Lower(title)
        cleaned_lower == Lower(CleanedLocation(loc))
    IN  \/ title_lower = cleaned_lower
        \/ Contains(title_lower, Disambiguation)
        \/ \E k \in 1 .. Len(skip_keywords) : Contains(title_lower, skip_keywords[k])

\* a slip: every title that is not skipped counts as historical
IsHistoricalAny(title, loc, e) == TRUE

\* lines 114-119
IsHistorical(title, loc, e) ==
    LET title_lower == Lower(title)
        cleaned_lower == Lower(CleanedLocation(loc))
    IN  \/ Contains(title_lower, History)
        \/ Contains(title_lower, Lower(e))
        \/ Contains(title_lower, cleaned_lower)
        \/ \E k \in 1 .. Len(related_keywords) : Contains(title_lower, related_keywords[k])

\* both tests for every location, era and title of the model, computed once
TitleChecks ==
    [loc \in Locations |-> [e \in Eras |-> [title \in Titles |->
        [skipped |-> IsSkipped(title, loc), historical |-> IsHistorical(title, loc, e)]]]]

Skips(title, loc, e) == TitleChecks[loc][e][title].skipped
Accepts(title, loc, e) == TitleChecks[loc][e][title].historical

\* a slip: the test 'title not in related_pages' left out
ExamineTitlesNoDedupe(titles, i, pages, examined, loc, e) ==
    LET RECURSIVE Go(_, _, _)
        Go(j, acc, n) ==
            IF j > Len(titles) THEN [pages |-> acc, examined |-> n]
            ELSE IF Skips(titles[j], loc, e) THEN Go(j + 1, acc, n + 1)
            ELSE IF Accepts(titles[j], loc, e)
            THEN IF Len(acc) + 1 >= 3
                 THEN [pages |-> Append(acc, titles[j]), examined |-> n + 1]
                 ELSE Go(j + 1, Append(acc, titles[j]), n + 1)
            ELSE Go(j + 1, acc, n + 1)
    IN  Go(i, pages, examined)

\* the loop of lines 98-124 over titles[i..]: the list related_pages after
\* it, and the number of titles it examined
RECURSIVE ExamineTitles(_, _, _, _, _, _)
ExamineTitles(titles, i, pages, examined, loc, e) ==
    IF i > Len(titles) THEN [pages |-> pages, examined |-> examined]
    ELSE IF Skips(titles[i], loc, e)
    THEN ExamineTitles(titles, i + 1, pages, examined + 1, loc, e)
    ELSE IF titles[i] \notin Elems(pages) /\ Accepts(titles[i], loc, e)
    THEN IF Len(pages) + 1 >= 3
         THEN [pages |-> Append(pages, titles[i]), examined |-> examined + 1]
         ELSE ExamineTitles(titles, i + 1, Append(pages, titles[i]), examined + 1, loc, e)
    ELSE ExamineTitles(titles, i + 1, pages, examined + 1, loc, e)

\* related_pages[:3]
FirstThree(pages) == SubSeq(pages, 1, Min(3, Len(pages)))

\* the answers of the search endpoint: requests.get raises (timeout,
\* connection error) or response.json() raises; a status other than 200; a
\* JSON array of fewer than two elements; an array whose second element is
\* a list of titles
SearchFailures == {[kind |-> k, titles |-> <<>>] : k \in {"exception", "status", "short"}}
SearchAnswers ==
    SearchFailures
    \cup {[kind |-> "titles", titles |-> ts] :
            ts \in UNION {[1 .. n -> Titles] : n \in 0 .. MaxTitles}}

(***************************************************************************)
(* A call of normalize_bounding_box on any raw box and image size.         *)
(***************************************************************************)
Pending == [error |-> "pending", x |-> 0, y |-> 0, width |-> 0, height |-> 0]

EmptyBox == [x |-> Missing, y |-> Missing, width |-> Missing, height |-> Missing]

RawBoxes == [x : FieldVals, y : FieldVals, width : FieldVals, height : FieldVals]

Normalize ==
    /\ normalized = Pending
    /\ normalized' = normalize_bounding_box(bbox, image_width, image_height)
    /\ UNCHANGED <<bbox, image_width, image_height, notBox>>

(***************************************************************************)
(* A call of parse_gemini_json_response on any response text.              *)
(***************************************************************************)
Parse ==
    /\ parsed = NotParsed
    /\ parsed' = parse_gemini_json_response(response_text)
    /\ UNCHANGED <<response_text, notParse>>

(***************************************************************************)
(* A call of extract_topics_from_metadata on any metadata of the bounded   *)
(* set: each text field absent (or empty) or one of a few texts.           *)
(***************************************************************************)

FieldTexts ==
    {<<>>, Sample.CivilRightsSentence, Sample.ColdWar, Sample.NewYork,
     Sample.WorldWarII, Sample.KoreanVietnam, Sample.FrenchParis}

NoClothing == [kind |-> "none", text |-> <<>>, styles |-> <<>>, materials |-> <<>>,
               significance |-> <<>>]
ClothingText(t) == [kind |-> "text", text |-> t, styles |-> <<>>, materials |-> <<>>,
                    significance |-> <<>>]
ClothingMapping(st, ma, si) == [kind |-> "mapping", text |-> <<>>, styles |-> st,
                                materials |-> ma, significance |-> si]

ClothingVals ==
    {NoClothing, ClothingText(Sample.ColdWar),
     ClothingMapping(Sample.JazzAge, <<>>, Sample.NewYork)}

\* A metadata mapping: keys holds the keys that are present; a text field
\* that is absent holds the empty text and a year field that is absent the
\* empty string.
Metadata(ks, n, h, so, l, c) ==
    [keys |-> ks, notes |-> n, historical_context |-> h,
     socioeconomic_inference |-> so, lifestyle_insights |-> l, clothing_analysis |-> c,
     estimated_year |-> "", year |-> "", decade |-> "", estimated_period |-> "",
     user_context |-> <<>>, wikipedia_links |-> <<>>]

\* the keys of the text fields that are given
TextKeys(n, h, so, l, c) ==
    (IF n = <<>> THEN {} ELSE {"notes"})
    \cup (IF h = <<>> THEN {} ELSE {"historical_context"})
    \cup (IF so = <<>> THEN {} ELSE {"socioeconomic_inference"})
    \cup (IF l = <<>> THEN {} ELSE {"lifestyle_insights"})
    \cup (IF c.kind = "none" THEN {} ELSE {"clothing_analysis"})

Metadatas ==
    {Metadata(TextKeys(n, h, so, l, c), n, h, so, l, c) :
        n \in FieldTexts, h \in FieldTexts, so \in FieldTexts, l \in FieldTexts,
        c \in ClothingVals}

EmptyMetadata == Metadata({}, <<>>, <<>>, <<>>, <<>>, NoClothing)

NoTopicsYet == [returned |-> FALSE, topics |-> <<>>]

ExtractTopics ==
    /\ ~extracted_topics.returned
    /\ extracted_topics' = [returned |-> TRUE, topics |-> extract_topics_from_metadata(metadata)]
    /\ UNCHANGED <<metadata, notTopics>>

(***************************************************************************)
(* A call of get_related_wikipedia_pages: one step per search request,     *)
(* with any answer of the endpoint, then the return.                       *)
(***************************************************************************)
NoRelatedYet == [returned |-> FALSE, titles |-> <<>>]

\* one iteration of the loop of lines 83-129
Search(answer) ==
    /\ related_pc = "search"
    /\ Len(searches) < 3
    /\ LET query == SearchQueries(location, era)[Len(searches) + 1]
           after == IF answer.kind = "titles"
                    THEN ExamineTitles(answer.titles, 1, related_pages, 0, location, era)
                    ELSE [pages |-> related_pages, examined |-> 0]
           repeats == Cardinality({i \in 1 .. after.examined :
                                      answer.titles[i] \in Elems(related_pages)})
       IN  /\ related_pages' = after.pages
           /\ searches' = Append(searches, [query |-> query, kind |-> answer.kind,
                                            examined |-> after.examined,
                                            repeats |-> repeats,
                                            last |-> IF after.examined = 0 THEN <<>>
                                                     ELSE answer.titles[after.examined]])
           \* 'except Exception: continue' skips the test of lines 128-129
           /\ related_pc' = IF \/ (answer.kind # "exception" /\ Len(after.pages) >= 3)
                               \/ Len(searches) + 1 = 3
                            THEN "return" ELSE "search"
    /\ UNCHANGED <<location, era, related_result, notRelated>>

SearchStep == \E answer \in SearchAnswers : Search(answer)

\* line 131
ReturnRelated ==
    /\ related_pc = "return"
    /\ related_result' = [returned |-> TRUE, titles |-> FirstThree(related_pages)]
    /\ related_pc' = "done"
    /\ UNCHANGED <<location, era, related_pages, searches, notRelated>>

RelatedNext == SearchStep \/ ReturnRelated

(***************************************************************************)
(* analyze_image and analyze_video: one request, one step per stage.       *)
(***************************************************************************)
MockImageNotes ==
    <<"V", "i", "n", "t", "a", "g", "e", " ", "p", "h", "o", "t", "o", "g",
      "r", "a", "p", "h", " ", "d", "e", "t", "e", "c", "t", "e", "d", ".",
      " ", "A", "p", "p", "e", "a", "r", "s", " ", "t", "o", " ", "b", "e",
      " ", "a", " ", "f", "a", "m", "i", "l", "y", " ", "p", "o", "r", "t",
      "r", "a", "i", "t", ".">>

MockVideoNotes ==
    <<"H", "i", "s", "t", "o", "r", "i", "c", "a", "l", " ", "v", "i", "d",
      "e", "o", " ", "f", "o", "o", "t", "a", "g", "e", " ", "d", "e", "t",
      "e", "c", "t", "e", "d", ".", " ", "A", "p", "p", "e", "a", "r", "s",
      " ", "t", "o", " ", "b", "e", " ", "v", "i", "n", "t", "a", "g", "e",
      " ", "f", "i", "l", "m", ".">>

UserProvidedContext ==
    <<" ", "U", "s", "e", "r", " ", "p", "r", "o", "v", "i", "d", "e", "d",
      " ", "c", "o", "n", "t", "e", "x", "t", ":", " ">>

UserContextLabel ==
    <<" ", "U", "s", "e", "r", " ", "c", "o", "n", "t", "e", "x", "t", ":",
      " ">>

Operations == {"analyze_image", "analyze_video"}

\* user_context: absent (or empty, which the code treats alike) or a text
UserContexts == {<<>>, Sample.FamilyTrip}

\* location: absent (or empty) or a text
RequestLocations == {<<>>, Sample.ParisFrance}

\* an entry of the log of calls to the vision backend and the encyclopedia
Call(fn, arg) == [fn |-> fn, arg |-> arg]

VisionCalls == {"chat.send_message", "models.generate_content"}
EncyclopediaCalls ==
    {"get_related_wikipedia_pages", "fetch_multiple_wikipedia_pages",
     "fetch_wikipedia_context", "fetch_wikipedia_page"}

\* an entry of related_pages / wikipedia_links
Link(title, type) == [title |-> title, url |-> "url", type |-> type]

\* wikipedia_data: None, or a mapping with its combined_text (the texts it
\* is made of, in order)
NoWikipediaData == [none |-> TRUE, combined_text |-> <<>>]
WikipediaData(text) == [none |-> FALSE, combined_text |-> text]

\* what get_related_wikipedia_pages hands to the request
TopicsToFetch == {<<>>, <<Sample.ParisCommune, Sample.HistoryOfParis>>}

NoPrompt == [built |-> FALSE, width |-> 0, height |-> 0, location |-> <<>>,
             user_context |-> <<>>, wikipedia_context |-> <<>>]

\* build_analysis_prompt and the prompt of analyze_video: the values the
\* template embeds (the video template has no dimensions)
Prompt(op, w, h, loc, context, wikipedia_context_text) ==
    [built |-> TRUE,
     width |-> IF op = "analyze_image" THEN w ELSE 0,
     height |-> IF op = "analyze_image" THEN h ELSE 0,
     location |-> loc, user_context |-> context,
     wikipedia_context |-> wikipedia_context_text]

\* the response texts of the vision model: prose only, an object inside
\* prose, a bare number
ResponseTexts == {<<"p", "p">>, <<"p", "{", "k", "1", "}", "p">>, <<"1">>}

\* the bounding boxes a payload can carry
PayloadBoxes ==
    {EmptyBox,
     [x |-> JInt(0), y |-> JInt(0), width |-> JInt(1), height |-> JInt(1)],
     [x |-> JInt(-1), y |-> JInt(MaxDim + 1), width |-> JInt(MaxDim + 1),
      height |-> JInt(-1)],
     [EmptyBox EXCEPT !.x = JNull],
     [EmptyBox EXCEPT !.width = JText]}

\* result["bounding_box"]: the key absent, a value that is no mapping (null,
\* a list, a number), or a mapping
Value(kind, v) == [kind |-> kind, value |-> v]
BoxValues ==
    {Value("absent", EmptyBox), Value("other", EmptyBox)}
    \cup {Value("mapping", b) : b \in PayloadBoxes}

\* the metadata mappings a payload can carry: notes given or not, and one of
\* estimated_year, year, decade given, or none of them
WithYears(md, ks, ey, y, d) ==
    [md EXCEPT !.keys = md.keys \cup ks, !.estimated_year = ey, !.year = y,
               !.decade = d]
PayloadNotes == {<<>>, Sample.FrenchParis}
PayloadMetadatas ==
    {WithYears(Metadata(TextKeys(n, <<>>, <<>>, <<>>, NoClothing), n, <<>>, <<>>, <<>>,
                        NoClothing), yr.keys, yr.estimated_year, yr.year, yr.decade) :
        n \in PayloadNotes,
        yr \in {[keys |-> {"estimated_year"}, estimated_year |-> "1955", year |-> "", decade |-> ""],
                [keys |-> {"year", "decade"}, estimated_year |-> "", year |-> "1954", decade |-> "1950s"],
                [keys |-> {"decade"}, estimated_year |-> "", year |-> "", decade |-> "1950s"],
                [keys |-> {}, estimated_year |-> "", year |-> "", decade |-> ""]}}
MetadataValues ==
    {Value("absent", EmptyMetadata), Value("other", EmptyMetadata)}
    \cup {Value("mapping", md) : md \in PayloadMetadatas}

\* the value json.loads returned: a mapping with its members, or a value
\* that is no mapping
NoPayload == [kind |-> "none", bounding_box |-> Value("absent", EmptyBox),
              metadata |-> Value("absent", EmptyMetadata)]
NotAMapping == [NoPayload EXCEPT !.kind = "other"]
Payloads(op) ==
    {[kind |-> "mapping", bounding_box |-> b, metadata |-> md] :
        b \in IF op = "analyze_image" THEN BoxValues ELSE {Value("absent", EmptyBox)},
        md \in MetadataValues}

\* notes of the mock results (lines 423-425 and 453-455)
MockNotes(base, context) ==
    IF context = <<>> THEN base ELSE base \o UserProvidedContext \o context

\* a slip: the mock box taken from the normalizer's defaults, which clamp
MockBoxFromDefaults(w, h) == normalize_bounding_box(EmptyBox, w, h)

\* lines 443-451: margin_w = width * 0.1, x = int(margin_w),
\* width = int(width - 2 * margin_w), and the same for the height
MockBox(w, h) ==
    LET margin_w == FloatMul(w, Float01)
        margin_h == FloatMul(h, Float01)
    IN  Box(Trunc(margin_w), Trunc(margin_h),
            Trunc(FloatSub(FloatOfInt(w), BigMulSmall(margin_w, 2))),
            Trunc(FloatSub(FloatOfInt(h), BigMulSmall(margin_h, 2))))

\* the mock box of each image size of the requests
MockBoxes == [w \in Dims, h \in Dims |-> MockBox(w, h)]

\* lines 457-463
MockImageMetadata(context) ==
    [EmptyMetadata EXCEPT
        !.keys = {"year", "decade", "estimated_period", "notes", "user_context"},
        !.year = "1980", !.decade = "1980s",
        !.estimated_period = "Late 20th century",
        !.notes = MockNotes(MockImageNotes, context),
        !.user_context = context]

\* lines 427-433
MockVideoMetadata(context) ==
    [EmptyMetadata EXCEPT
        !.keys = {"estimated_year", "decade", "estimated_period", "notes",
                  "user_context"},
        !.estimated_year = "1950-1960", !.decade = "1950s",
        !.estimated_period = "Mid-20th century",
        !.notes = MockNotes(MockVideoNotes, context),
        !.user_context = context]

\* what a request returned: nothing yet, a mapping, or an exception that
\* left the call; path tells which return statement produced the mapping
NoBox == Box(0, 0, 0, 0)
NoResult ==
    [status |-> "pending", path |-> "none", has_box |-> FALSE,
     bounding_box |-> NoBox, metadata |-> EmptyMetadata]
RaisedResult == [NoResult EXCEPT !.status = "raised"]
Returned(path, has_box, box, md) ==
    [status |-> "returned", path |-> path, has_box |-> has_box,
     bounding_box |-> box, metadata |-> md]

\* a slip: the mock carrying the links of the pages fetched for the prompt
FallbackMockWithLinks(w, h, context, path) ==
    [status |-> "returned", path |-> path, has_box |-> TRUE, bounding_box |-> MockBox(w, h),
     metadata |-> IF link_pages = <<>> THEN MockImageMetadata(context)
                  ELSE [MockImageMetadata(context) EXCEPT
                           !.keys = @ \cup {"wikipedia_links"},
                           !.wikipedia_links = link_pages]]

fallback_mock_analysis(w, h, context, path) ==
    Returned(path, TRUE, MockBoxes[w, h], MockImageMetadata(context))

fallback_mock_video_analysis(context, path) ==
    Returned(path, FALSE, NoBox, MockVideoMetadata(context))

\* lines 222-223 and 381-382
EnsureEstimatedYear(md) ==
    IF "estimated_year" \in md.keys THEN md
    ELSE [md EXCEPT !.keys = @ \cup {"estimated_year"},
                    !.estimated_year = IF "year" \in md.keys THEN md.year
                                       ELSE IF "decade" \in md.keys THEN md.decade
                                       ELSE "Unknown"]

\* a slip: the notes created when the metadata has none
AppendUserContextAlways(md, context) ==
    IF context = <<>> THEN md
    ELSE [md EXCEPT !.keys = @ \cup {"notes"},
                    !.notes = @ \o UserContextLabel \o context]

\* lines 225-226 and 384-385
AppendUserContext(md, context) ==
    IF context # <<>> /\ "notes" \in md.keys
    THEN [md EXCEPT !.notes = @ \o UserContextLabel \o context]
    ELSE md

\* metadata["wikipedia_links"] = links
AttachLinks(md, links) ==
    [md EXCEPT !.keys = @ \cup {"wikipedia_links"}, !.wikipedia_links = links]

\* the title of the page a location lookup resolved to (fetch_wikipedia_context
\* tries the location, then "History of <location>"), or nothing
LocationAnswers == {<<>>, Sample.Paris, Sample.HistoryOfParis}

\* the entries of list at the indices of found, in order
RECURSIVE Pick(_, _, _)
Pick(list, found, i) ==
    IF i > Len(list) THEN <<>>
    ELSE (IF i \in found THEN <<list[i]>> ELSE <<>>) \o Pick(list, found, i + 1)

\* the link entries of a list of page titles
Links(titles, type) == [i \in 1 .. Len(titles) |-> Link(titles[i], type)]

\* the variables a step of a request never changes
requestFixed ==
    <<operation, gemini_client, user_context, width, height, location, boxVars,
      extracted_topics, era, related_pages, searches, related_pc,
      fetchVars, restoreVars, videoVars, cropped, routeVars>>
requestVars == <<requestFixed, related_result>>

\* lines 151-152 and 279-280
Enter ==
    /\ analysis_pc = "enter"
    /\ analysis_pc' = IF ~gemini_client THEN "mock"
                      ELSE IF operation = "analyze_image" THEN "open"
                      ELSE "prompt"
    /\ UNCHANGED <<link_lookups, requestVars, calls, failed_at, wikipedia_data, link_pages, prompt,
                   response_text, parsed, result, bounding_box, metadata,
                   analysis_result>>

\* a stage raised: control passes to the except clause (lines 261, 416)
Fails(stage) ==
    /\ analysis_pc' = "except"
    /\ failed_at' = stage

\* lines 156-157: Image.open decodes the file or raises
OpenImage(readable) ==
    /\ analysis_pc = "open"
    /\ IF readable THEN analysis_pc' = "prompt" /\ failed_at' = failed_at
       ELSE Fails("open")
    /\ UNCHANGED <<link_lookups, requestVars, calls, wikipedia_data, link_pages, prompt,
                   response_text, parsed, result, bounding_box, metadata,
                   analysis_result>>

\* a slip: the single location page looked up first
PromptCallsContextFirst(loc, topics_to_fetch, single_lookup) ==
    (IF single_lookup THEN <<Call("fetch_wikipedia_context", loc)>> ELSE <<>>)
    \o (IF loc = <<>> THEN <<>>
        ELSE <<Call("get_related_wikipedia_pages", loc),
               Call("fetch_multiple_wikipedia_pages", topics_to_fetch)>>)

\* the encyclopedia calls of lines 163-184 and 287-307, in order
PromptCalls(loc, topics_to_fetch, single_lookup) ==
    (IF loc = <<>> THEN <<>>
     ELSE <<Call("get_related_wikipedia_pages", loc),
            Call("fetch_multiple_wikipedia_pages", topics_to_fetch)>>)
    \o (IF single_lookup THEN <<Call("fetch_wikipedia_context", loc)>> ELSE <<>>)

\* lines 160-188 and 283-343.  topics_to_fetch is what
\* get_related_wikipedia_pages returned (kept in related_result),
\* multiple_raises whether fetch_multiple_wikipedia_pages raised,
\* location_page the title of the location page it found (or nothing),
\* topics_found the topics whose page it found, single_page the title the
\* single lookup of lines 176-184 found (or nothing).
BuildPrompt(topics_to_fetch, multiple_raises, location_page, topics_found, single_page) ==
    /\ analysis_pc = "prompt"
    /\ location = <<>> =>
          topics_to_fetch = <<>> /\ ~multiple_raises /\ location_page = <<>>
    /\ multiple_raises => location_page = <<>> /\ topics_found = {}
    /\ topics_found \subseteq 1 .. Len(topics_to_fetch)
    /\ LET found_topics == Pick(topics_to_fetch, topics_found, 1)
           fetched_pages ==
               (IF location_page = <<>> THEN <<>> ELSE <<Link(location_page, "location")>>)
               \o Links(found_topics, "topic")
           combined_text ==
               (IF location_page = <<>> THEN <<>> ELSE <<"location">>)
               \o [i \in 1 .. Len(found_topics) |-> "topic"]
           single_lookup == location # <<>> /\ fetched_pages = <<>>
           \* line 168-173: the mapping fetch_multiple_wikipedia_pages returned
           \* (never an empty one), None if it raised
           fetched == IF location = <<>> \/ multiple_raises THEN NoWikipediaData
                      ELSE WikipediaData(combined_text)
           \* lines 179-181: the text of the single page is taken only if
           \* wikipedia_data is None (or an empty mapping)
           data == IF single_lookup /\ single_page # <<>> /\ fetched.none
                   THEN WikipediaData(<<"single page">>)
                   ELSE fetched
       IN  /\ ~single_lookup => single_page = <<>>
           /\ wikipedia_data' = data
           /\ link_pages' = IF single_page # <<>>
                            THEN <<Link(single_page, "location")>>
                            ELSE fetched_pages
           /\ calls' = calls \o PromptCalls(location, topics_to_fetch, single_lookup)
           /\ related_result' = IF location = <<>> THEN related_result
                                ELSE [returned |-> TRUE, titles |-> topics_to_fetch]
           \* lines 187-188 and 310-311
           /\ prompt' = Prompt(operation, width, height, location, user_context,
                               data.combined_text)
    /\ analysis_pc' = "read"
    /\ UNCHANGED <<requestFixed, failed_at, response_text, parsed, result,
                   bounding_box, metadata, link_lookups, analysis_result>>

\* lines 191-192 and 346-347: the file is read or open/read raises
ReadMedia(readable) ==
    /\ analysis_pc = "read"
    /\ IF readable THEN analysis_pc' = "invoke" /\ failed_at' = failed_at
       ELSE Fails("read")
    /\ UNCHANGED <<link_lookups, requestVars, calls, wikipedia_data, link_pages, prompt,
                   response_text, parsed, result, bounding_box, metadata,
                   analysis_result>>

\* lines 195-210 and 360-374: the backend raises (or answers without parts)
\* or answers with a text
ModelAnswers ==
    {[raises |-> TRUE, text |-> <<>>]}
    \cup {[raises |-> FALSE, text |-> t] : t \in ResponseTexts}

InvokeModel(answer) ==
    /\ analysis_pc = "invoke"
    /\ calls' = Append(calls, Call(IF operation = "analyze_image"
                                   THEN "chat.send_message"
                                   ELSE "models.generate_content", <<>>))
    /\ IF answer.raises
       THEN Fails("invoke") /\ response_text' = response_text
       ELSE /\ response_text' = answer.text
            /\ analysis_pc' = "parse"
            /\ failed_at' = failed_at
    /\ UNCHANGED <<link_lookups, requestVars, wikipedia_data, link_pages, prompt, parsed, result,
                   bounding_box, metadata, analysis_result>>

\* parse_gemini_json_response on each response text of the model
ParsedTexts == [t \in ResponseTexts |-> parse_gemini_json_response(t)]

\* what the parse stage can yield: a mapping, a value that is no mapping,
\* or nothing (the parser raised)
ParseOutcomes == Payloads("analyze_image") \cup {NoPayload, NotAMapping}

\* lines 213 and 377; payload is the value the text decodes to when it
\* decodes to an object (the model's alphabet does not spell its members)
ParseResponse(payload) ==
    /\ analysis_pc = "parse"
    /\ LET p == ParsedTexts[response_text]
       IN  /\ parsed' = p
           /\ IF p.error # "none"
              THEN payload = NoPayload /\ result' = result /\ Fails("parse")
              ELSE /\ IF p.value.type = "object"
                      THEN payload \in Payloads(operation)
                      ELSE payload = NotAMapping
                   /\ result' = payload
                   /\ analysis_pc' = IF operation = "analyze_image"
                                     THEN "normalize" ELSE "metadata"
                   /\ failed_at' = failed_at
    /\ UNCHANGED <<link_lookups, requestVars, calls, wikipedia_data, link_pages, prompt,
                   response_text, bounding_box, metadata, analysis_result>>

\* normalize_bounding_box on each box a payload can carry and each image size
NormalizedBoxes ==
    [b \in PayloadBoxes, w \in Dims, h \in Dims |-> normalize_bounding_box(b, w, h)]

\* lines 216-217: result.get raises on a value that is no mapping, bbox.get
\* raises on a bounding_box that is no mapping, int() raises on a field that
\* is no number
NormalizeBox ==
    /\ analysis_pc = "normalize"
    /\ LET bbox_value == result.bounding_box
           box == NormalizedBoxes[bbox_value.value, width, height]
       IN  IF result.kind # "mapping" \/ bbox_value.kind = "other" \/ box.error # "none"
           THEN Fails("normalize") /\ bounding_box' = bounding_box
           ELSE /\ bounding_box' = box
                /\ analysis_pc' = "metadata"
                /\ failed_at' = failed_at
    /\ UNCHANGED <<link_lookups, requestVars, calls, wikipedia_data, link_pages, prompt,
                   response_text, parsed, result, metadata, analysis_result>>

\* lines 219-226 and 378-385: result.get raises on a value that is no
\* mapping, 'in' raises on a metadata that is no mapping
HandleMetadata ==
    /\ analysis_pc = "metadata"
    /\ IF result.kind # "mapping" \/ result.metadata.kind = "other"
       THEN Fails("metadata") /\ metadata' = metadata
       ELSE /\ metadata' = AppendUserContext(EnsureEstimatedYear(result.metadata.value),
                                             user_context)
            /\ analysis_pc' = "links"
            /\ failed_at' = failed_at
    /\ UNCHANGED <<link_lookups, requestVars, calls, wikipedia_data, link_pages, prompt,
                   response_text, parsed, result, bounding_box, analysis_result>>

\* extract_topics_from_metadata on each metadata that reaches the links
HandledMetadatas ==
    {AppendUserContext(EnsureEstimatedYear(v.value), c) :
        v \in MetadataValues, c \in UserContexts}
ExtractedTopics == [md \in HandledMetadatas |-> extract_topics_from_metadata(md)]

\* a call made for the links with its outcome: a lookup found a page (title
\* is the title of the page), found nothing or raised; the topic extractor
\* returned or raised
LookupOutcomes == {"found", "nothing", "raises"}
Lookup(fn, arg, outcome, title) ==
    [fn |-> fn, arg |-> arg, outcome |-> outcome, title |-> title]

\* a slip: the location tested before the related pages
LinkBranchLocationFirst(pages, loc) ==
    IF loc # <<>> THEN "location" ELSE IF pages # <<>> THEN "pages" ELSE "topics"

\* lines 229, 231, 240 and 388, 390, 398: if related_pages / elif location /
\* else
LinkBranch(pages, loc) ==
    IF pages # <<>> THEN "pages" ELSE IF loc # <<>> THEN "location" ELSE "topics"

\* the lookups of lines 244-250 and 402-408, one per topic
RECURSIVE TopicLookups(_, _, _)
TopicLookups(topics, outcomes, i) ==
    IF i > Len(topics) THEN <<>>
    ELSE <<Lookup("fetch_wikipedia_page", topics[i], outcomes[i],
                  IF outcomes[i] = "found" THEN topics[i] ELSE <<>>)>>
         \o TopicLookups(topics, outcomes, i + 1)

\* a slip: a lookup that raises leaves the loop and loses the links
AutoLinksLostOnFailure(lookups) ==
    IF \E i \in 1 .. Len(lookups) : lookups[i].outcome = "raises" THEN <<>>
    ELSE [i \in 1 .. Len(SelectSeq(lookups, LAMBDA l : l.outcome = "found")) |->
             Link(SelectSeq(lookups, LAMBDA l : l.outcome = "found")[i].title, "topic")]

\* auto_links (lines 243-250 and 401-408): a page found is appended, a
\* lookup that found nothing or raised is passed over
AutoLinks(lookups) ==
    LET hits == SelectSeq(lookups, LAMBDA l : l.outcome = "found")
    IN  [i \in 1 .. Len(hits) |-> Link(hits[i].title, "topic")]

\* lines 229-259 and 388-414.  location_page is the title the lookup of the
\* second branch found (or nothing), outcomes the outcome of each lookup,
\* extraction_raises whether extract_topics_from_metadata raised (it does on
\* a text field that holds no text).
LinkEnrichment(location_page, outcomes, extraction_raises) ==
    /\ analysis_pc = "links"
    /\ LET branch == LinkBranch(link_pages, location)
           topics == IF branch = "topics" /\ ~extraction_raises
                     THEN FirstThree(ExtractedTopics[metadata])
                     ELSE <<>>
           lookups ==
               IF branch = "pages" THEN <<>>
               ELSE IF branch = "location"
               THEN <<Lookup("fetch_wikipedia_context", location, outcomes[1],
                             location_page)>>
               ELSE TopicLookups(topics, outcomes, 1)
           links == IF branch = "pages" THEN link_pages
                    ELSE IF branch = "location"
                    THEN (IF location_page = <<>> THEN <<>>
                          ELSE <<Link(location_page, "location")>>)
                    ELSE AutoLinks(lookups)
           final == IF links = <<>> THEN metadata ELSE AttachLinks(metadata, links)
       IN  /\ location_page # <<>> <=> branch = "location" /\ outcomes[1] = "found"
           /\ extraction_raises => branch = "topics"
           /\ \A i \in 1 .. 3 : i > Len(lookups) => outcomes[i] = "nothing"
           /\ link_lookups' =
                (IF branch = "topics"
                 THEN <<Lookup("extract_topics_from_metadata", <<>>,
                               IF extraction_raises THEN "raises" ELSE "returned",
                               <<>>)>>
                 ELSE <<>>)
                \o lookups
           /\ calls' = calls \o [i \in 1 .. Len(lookups) |->
                                    Call(lookups[i].fn, lookups[i].arg)]
           /\ metadata' = final
           /\ analysis_result' = Returned("model", operation = "analyze_image",
                                          bounding_box, final)
    /\ analysis_pc' = "done"
    /\ UNCHANGED <<requestVars, failed_at, wikipedia_data, link_pages, prompt,
                   response_text, parsed, result, bounding_box>>

\* lines 152 and 263, then 438-468: Image.open decodes the file or raises,
\* and what it raises leaves analyze_image
FallbackMockAnalysis(readable) ==
    /\ analysis_pc \in {"mock", "except"}
    /\ operation = "analyze_image"
    /\ analysis_result' =
          IF readable
          THEN fallback_mock_analysis(width, height, user_context,
                                      IF analysis_pc = "mock" THEN "unavailable" ELSE "error")
          ELSE RaisedResult
    /\ analysis_pc' = "done"
    /\ UNCHANGED <<link_lookups, requestVars, calls, failed_at, wikipedia_data, link_pages, prompt,
                   response_text, parsed, result, bounding_box, metadata>>

\* lines 280 and 418, then 421-435
FallbackMockVideoAnalysis ==
    /\ analysis_pc \in {"mock", "except"}
    /\ operation = "analyze_video"
    /\ analysis_result' =
          fallback_mock_video_analysis(user_context,
                                       IF analysis_pc = "mock" THEN "unavailable" ELSE "error")
    /\ analysis_pc' = "done"
    /\ UNCHANGED <<link_lookups, requestVars, calls, failed_at, wikipedia_data, link_pages, prompt,
                   response_text, parsed, result, bounding_box, metadata>>

AnalyzeNext ==
    \/ Enter
    \/ \E readable \in BOOLEAN : OpenImage(readable)
    \/ /\ analysis_pc = "prompt"
       /\ \E topics_to_fetch \in TopicsToFetch, multiple_raises \in BOOLEAN,
             location_page \in LocationAnswers, topics_found \in SUBSET {1, 2},
             single_page \in LocationAnswers :
               BuildPrompt(topics_to_fetch, multiple_raises, location_page, topics_found,
                           single_page)
    \/ \E readable \in BOOLEAN : ReadMedia(readable)
    \/ \E answer \in ModelAnswers : InvokeModel(answer)
    \/ /\ analysis_pc = "parse"
       /\ \E payload \in ParseOutcomes : ParseResponse(payload)
    \/ NormalizeBox
    \/ HandleMetadata
    \/ /\ analysis_pc = "links"
       /\ \E location_page \in LocationAnswers, outcomes \in [1 .. 3 -> LookupOutcomes],
             extraction_raises \in BOOLEAN :
               LinkEnrichment(location_page, outcomes, extraction_raises)
    \/ \E readable \in BOOLEAN : FallbackMockAnalysis(readable)
    \/ FallbackMockVideoAnalysis

(***************************************************************************)
(* fetch_wikipedia_page, fetch_wikipedia_context and                       *)
(* fetch_multiple_wikipedia_pages: one step per HTTP request.  A text is a *)
(* sequence of pieces, each with the page it is about and its length in    *)
(* characters.                                                             *)
(***************************************************************************)
FetchOperations ==
    {"fetch_wikipedia_page", "fetch_wikipedia_context", "fetch_multiple_wikipedia_pages",
     "get_related_wikipedia_pages"}

\* the topics a caller can pass, in order
AllTopics ==
    <<Sample.HistoryOfParis, Sample.ParisCommune, Sample.FrenchRevolution,
      Sample.EiffelTower, Sample.ColdWar>>

\* the outcomes of requests.get and response.json(): an exception (timeout,
\* connection error), a status other than 200, a body that is no JSON, a
\* body with no extract, a body with an extract of some length, a body whose
\* extract is no text (a number, say)
HttpFailures == {"timeout", "status", "undecodable", "no_extract"}
HttpOutcomes ==
    {[kind |-> k, extract |-> 0] : k \in HttpFailures}
    \cup {[kind |-> "page", extract |-> n] : n \in {1, 501, 1200}}
    \cup {[kind |-> "non_text", extract |-> 1]}

\* a slip: the test of line 28 left out, an empty extract returned as a page
FetchPageWithoutExtract(page_name, outcome) ==
    IF outcome.kind \in {"page", "non_text", "no_extract"}
    THEN [found |-> TRUE, title |-> page_name,
          extract |-> <<[what |-> "extract", about |-> page_name, len |-> outcome.extract]>>,
          url |-> "url"]
    ELSE [found |-> FALSE, title |-> <<>>, extract |-> <<>>, url |-> ""]

Piece(what, about, len) == [what |-> what, about |-> about, len |-> len]

RECURSIVE TextLen(_)
TextLen(text) == IF text = <<>> THEN 0 ELSE Head(text).len + TextLen(Tail(text))

\* text[:n]
RECURSIVE Cut(_, _)
Cut(text, n) ==
    IF text = <<>> \/ n <= 0 THEN <<>>
    ELSE IF Head(text).len >= n THEN <<[Head(text) EXCEPT !.len = n]>>
    ELSE <<Head(text)>> \o Cut(Tail(text), n - Head(text).len)

NoPage == [found |-> FALSE, title |-> <<>>, extract |-> <<>>, url |-> ""]

\* lines 22-38: the page, or None on every failure
fetch_wikipedia_page(page_name, outcome) ==
    IF outcome.kind \in {"page", "non_text"}
    THEN [found |-> TRUE, title |-> page_name,
          extract |-> <<Piece(IF outcome.kind = "page" THEN "extract" ELSE "non-text",
                              page_name, outcome.extract)>>,
          url |-> "url"]
    ELSE NoPage

\* line 51
SearchTerms(loc) == <<CleanedLocation(loc), HistoryOf \o CleanedLocation(loc)>>

NoContext == [found |-> FALSE, title |-> <<>>, text |-> <<>>, url |-> ""]

\* a slip: the text returned whole
ContextUncut(page, loc, e) ==
    [found |-> TRUE, title |-> page.title,
     text |-> <<Piece("Historical context for", page.title,
                      23 + Len(CleanedLocation(loc)) + 8 + Len(e) + 2)>>
              \o page.extract,
     url |-> page.url]

\* lines 56-61: "Historical context for <cleaned> during <era>: <extract>",
\* cut to 1000 characters
Context(page, loc, e) ==
    [found |-> TRUE, title |-> page.title,
     text |-> Cut(<<Piece("Historical context for", page.title,
                          23 + Len(CleanedLocation(loc)) + 8 + Len(e) + 2)>>
                  \o page.extract, 1000),
     url |-> page.url]

\* lines 139-144
EmptyCombined ==
    [location |-> NoContext, topics |-> <<>>, combined_text |-> <<>>,
     related_pages |-> <<>>]

Separator(about) == Piece("separator", about, 2)

\* lines 154-161
AddLocation(acc, location_data) ==
    IF location_data.found
    THEN [acc EXCEPT !.location = location_data,
                     !.related_pages = Append(@, Link(location_data.title, "location")),
                     !.combined_text = @ \o location_data.text
                                         \o <<Separator(location_data.title)>>]
    ELSE acc

\* a slip: the page of a topic put at the head of related_pages
AddTopicFirst(acc, topic, topic_data) ==
    IF topic_data.found
    THEN [acc EXCEPT !.topics = Append(@, topic_data),
                     !.related_pages = <<Link(topic_data.title, "topic")>> \o @,
                     !.combined_text = @ \o <<Piece("Context about", topic, 14 + Len(topic) + 2)>>
                                         \o Cut(topic_data.extract, 500)
                                         \o <<Separator(topic)>>]
    ELSE acc

\* a slip: the whole extract of a topic page taken
AddTopicWhole(acc, topic, topic_data) ==
    IF topic_data.found
    THEN [acc EXCEPT !.topics = Append(@, topic_data),
                     !.related_pages = Append(@, Link(topic_data.title, "topic")),
                     !.combined_text = @ \o <<Piece("Context about", topic, 14 + Len(topic) + 2)>>
                                         \o topic_data.extract \o <<Separator(topic)>>]
    ELSE acc

\* lines 167-175: "Context about <topic>: <extract[:500]>"
AddTopic(acc, topic, topic_data) ==
    IF topic_data.found
    THEN [acc EXCEPT !.topics = Append(@, topic_data),
                     !.related_pages = Append(@, Link(topic_data.title, "topic")),
                     !.combined_text = @ \o <<Piece("Context about", topic, 14 + Len(topic) + 2)>>
                                         \o Cut(topic_data.extract, 500)
                                         \o <<Separator(topic)>>]
    ELSE acc

\* where a call stands: the phase, the attempt of fetch_wikipedia_context
\* (1: line 147, 2: line 152), the search term or the topic it is at
At(phase, attempt, index) == [phase |-> phase, attempt |-> attempt, index |-> index]

NoFetchResult == [status |-> "pending", value |-> NoPage]
FetchRaised == [status |-> "raised", value |-> NoPage]
FetchReturned(v) == [status |-> "returned", value |-> v]

\* the variables a step of these operations never changes
fetchFixed ==
    <<fetch_op, fetch_topics, location, era, boxVars, parseVars, topicVars,
      related_pages, searches, related_pc, related_result, analysisVars, restoreVars,
      videoVars, cropped, routeVars>>

\* one request is logged, with whether it yielded a page
Logged(page_name, outcome) ==
    /\ requests' = Append(requests, [title |-> page_name,
                                     found |-> outcome.kind \in {"page", "non_text"}])
    /\ last_response' = outcome.kind

\* a call of fetch_wikipedia_page on its own (lines 10-38)
PageRequest(outcome) ==
    /\ fetch_pc.phase = "page"
    /\ Logged(location, outcome)
    /\ fetch_result' = FetchReturned(fetch_wikipedia_page(location, outcome))
    /\ fetch_pc' = At("done", 0, 0)
    /\ UNCHANGED <<fetchFixed, combined>>

\* the state after fetch_wikipedia_context returned location_data for the
\* given attempt (lines 148-164, or its own return)
AfterContext(location_data, attempt) ==
    IF fetch_op = "fetch_wikipedia_context"
    THEN /\ fetch_result' = FetchReturned(location_data)
         /\ fetch_pc' = At("done", 0, 0)
         /\ combined' = combined
    ELSE IF ~location_data.found /\ attempt = 1 /\ CleanedLocation(location) # location
    THEN /\ fetch_pc' = At("context", 2, 1)
         /\ UNCHANGED <<fetch_result, combined>>
    ELSE /\ combined' = AddLocation(combined, location_data)
         /\ fetch_pc' = IF fetch_topics = <<>> THEN At("return", 0, 0) ELSE At("topics", 0, 1)
         /\ fetch_result' = fetch_result

\* one iteration of the loop of lines 53-61 inside fetch_wikipedia_context
ContextRequest(outcome) ==
    /\ fetch_pc.phase = "context"
    /\ LET loc == IF fetch_pc.attempt = 1 THEN location ELSE CleanedLocation(location)
           term == SearchTerms(loc)[fetch_pc.index]
           page == fetch_wikipedia_page(term, outcome)
       IN  /\ Logged(term, outcome)
           /\ IF page.found THEN AfterContext(Context(page, loc, era), fetch_pc.attempt)
              ELSE IF fetch_pc.index = 1
              THEN /\ fetch_pc' = At("context", fetch_pc.attempt, 2)
                   /\ UNCHANGED <<fetch_result, combined>>
              ELSE AfterContext(NoContext, fetch_pc.attempt)
    /\ UNCHANGED fetchFixed

\* one iteration of the loop of lines 165-175; an extract that is no text
\* cannot be sliced at line 174, which raises after the appends of lines
\* 168-173
TopicRequest(outcome) ==
    /\ fetch_pc.phase = "topics"
    /\ LET topic == fetch_topics[fetch_pc.index]
           topic_data == fetch_wikipedia_page(topic, outcome)
       IN  /\ Logged(topic, outcome)
           /\ IF outcome.kind = "non_text"
              THEN /\ combined' = [combined EXCEPT
                                      !.topics = Append(@, topic_data),
                                      !.related_pages = Append(@, Link(topic, "topic"))]
                   /\ fetch_result' = FetchRaised
                   /\ fetch_pc' = At("done", 0, 0)
              ELSE /\ combined' = AddTopic(combined, topic, topic_data)
                   /\ fetch_result' = fetch_result
                   /\ fetch_pc' = IF fetch_pc.index = Len(fetch_topics) THEN At("return", 0, 0)
                                  ELSE At("topics", 0, fetch_pc.index + 1)
    /\ UNCHANGED fetchFixed

\* lines 178-180
ReturnCombined ==
    /\ fetch_pc.phase = "return"
    /\ fetch_result' = FetchReturned([combined EXCEPT !.combined_text = Cut(@, 2000)])
    /\ fetch_pc' = At("done", 0, 0)
    /\ UNCHANGED <<fetchFixed, combined, requests, last_response>>

\* the four encyclopedia operations
FetchNext ==
    \/ \E outcome \in HttpOutcomes : PageRequest(outcome)
    \/ \E outcome \in HttpOutcomes : ContextRequest(outcome)
    \/ \E outcome \in HttpOutcomes : TopicRequest(outcome)
    \/ ReturnCombined
    \/ RelatedNext

(***************************************************************************)
(* restore_image and fallback_mock_restoration.  The response of the model *)
(* is a sequence of parts: a part with no inline data (text), a part whose *)
(* inline data is an image, a part whose inline data cannot be turned into *)
(* an image or saved.                                                      *)
(***************************************************************************)
PartKinds == {"text", "image", "inline_other"}

\* generate_content raises, or answers with up to three parts
NoResponse == [kind |-> "none", parts |-> <<>>]
Responses ==
    {[kind |-> "raises", parts |-> <<>>]}
    \cup {[kind |-> "parts", parts |-> ps] : ps \in UNION {[1 .. n -> PartKinds] : n \in 0 .. 3}}

\* lines 71-72: the first part whose inline_data is not None, 0 for none
FirstInline(parts) ==
    IF \E i \in 1 .. Len(parts) : parts[i] # "text"
    THEN CHOOSE i \in 1 .. Len(parts) :
            parts[i] # "text" /\ \A k \in 1 .. i - 1 : parts[k] = "text"
    ELSE 0

\* restoration.py lines 34 and 102: metadata.get("estimated_year",
\* metadata.get("year", metadata.get("decade", "")))
YearInfo(md) ==
    IF "estimated_year" \in md.keys THEN md.estimated_year
    ELSE IF "year" \in md.keys THEN md.year
    ELSE IF "decade" \in md.keys THEN md.decade
    ELSE ""

\* what the file at output_path holds
NoOutput == [kind |-> "nothing", part |-> 0]
Output(kind, part) == [kind |-> kind, part |-> part]

NotRestored == [status |-> "pending", path |-> "none"]

\* the variables a step of restore_image never changes
restoreFixed ==
    <<colorize, input_readable, gemini_client, operation, user_context, width, height,
      calls, failed_at, wikipedia_data, link_pages, prompt, result, bounding_box,
      link_lookups, analysis_pc, analysis_result, boxVars, parseVars, topicVars,
      relatedVars, fetchVars, videoVars, cropped, routeVars>>

\* lines 30-31
RestoreEnter ==
    /\ restore_pc = "enter"
    /\ restore_pc' = IF gemini_client THEN "open" ELSE "fallback"
    /\ UNCHANGED <<restoreFixed, year_info, response, output_file, restore_result>>

\* lines 34-64: the prompt, then Image.open; a failure is caught at line 80
RestoreOpen ==
    /\ restore_pc = "open"
    /\ restore_pc' = IF input_readable THEN "generate" ELSE "fallback"
    /\ year_info' = YearInfo(metadata)
    /\ UNCHANGED <<restoreFixed, response, output_file, restore_result>>

\* lines 65-82
GenerateContent(answer) ==
    /\ restore_pc = "generate"
    /\ response' = answer
    /\ LET first == FirstInline(answer.parts)
       IN  IF answer.kind = "parts" /\ first # 0 /\ answer.parts[first] = "image"
           THEN /\ output_file' = Output("part", first)
                /\ restore_result' = [status |-> "returned", path |-> "output_path"]
                /\ restore_pc' = "done"
           ELSE /\ restore_pc' = "fallback"
                /\ UNCHANGED <<output_file, restore_result>>
    /\ UNCHANGED <<restoreFixed, year_info>>

\* lines 263-266
FallbackOutput(c) == IF c THEN Output("input", 0) ELSE Output("grayscale", 0)

\* lines 259-269; Image.open raises on a file that is no readable image
FallbackMockRestoration ==
    /\ restore_pc = "fallback"
    /\ IF input_readable
       THEN /\ output_file' = FallbackOutput(colorize)
            /\ restore_result' = [status |-> "returned", path |-> "output_path"]
       ELSE /\ output_file' = output_file
            /\ restore_result' = [status |-> "raised", path |-> "none"]
    /\ restore_pc' = "done"
    /\ UNCHANGED <<restoreFixed, year_info, response>>

RestoreNext ==
    \/ RestoreEnter
    \/ RestoreOpen
    \/ \E answer \in Responses : GenerateContent(answer)
    \/ FallbackMockRestoration

(***************************************************************************)
(* generate_video_from_image: one step per call it makes (the submission,  *)
(* each sleep, each poll) and one for what follows the poll loop.          *)
(***************************************************************************)
\* line 198
max_wait_time == 300
\* line 202
PollInterval == 10

\* what generate_videos or operations.get hands back: an operation that is
\* not done, or a done one with an error, with no response, with filtered
\* media, with no generated videos, with a video that has no file reference,
\* with a video whose download fails, with a video
OperationKinds ==
    {"running", "error", "no_response", "filtered", "no_videos", "no_reference",
     "download_fails", "video"}
\* the outcomes of a call: it raises, or an operation is handed back
CallOutcomes == {"raises"} \cup OperationKinds

VideoCall(fn, outcome) == [fn |-> fn, outcome |-> outcome]

NoVideoYet == [status |-> "pending", value |-> "none"]
VideoReturned(v) == [status |-> "returned", value |-> v]

\* the variables a step of generate_video_from_image never changes
videoFixed ==
    <<input_readable, gemini_client, colorize, restore_pc, response, output_file,
      restore_result, operation, user_context, width, height, calls, failed_at,
      wikipedia_data, link_pages, prompt, result, bounding_box, link_lookups,
      analysis_pc, analysis_result, boxVars, parseVars, topicVars, relatedVars, fetchVars, cropped,
      routeVars>>

\* every early exit and every handler (lines 99, 212, 223, 253, 256)
\* returns None
ReturnNone ==
    /\ video_result' = VideoReturned("none")
    /\ video_pc' = "done"

\* lines 98-99
VideoEnter ==
    /\ video_pc = "enter"
    /\ IF gemini_client
       THEN video_pc' = "prepare" /\ video_result' = video_result
       ELSE ReturnNone
    /\ UNCHANGED <<videoFixed, year_info, wait_time, video_operation, video_calls>>

\* lines 101-181: the prompt, Image.open, the padding, the request objects;
\* whatever is raised is caught at line 250 or 254
PrepareImage ==
    /\ video_pc = "prepare"
    /\ IF input_readable
       THEN video_pc' = "submit" /\ video_result' = video_result
       ELSE ReturnNone
    /\ year_info' = YearInfo(metadata)
    /\ UNCHANGED <<videoFixed, wait_time, video_operation, video_calls>>

\* lines 187-199
SubmitJob(outcome) ==
    /\ video_pc = "submit"
    /\ video_calls' = Append(video_calls, VideoCall("generate_videos", outcome))
    /\ IF outcome = "raises"
       THEN ReturnNone /\ UNCHANGED <<video_operation, wait_time>>
       ELSE /\ video_operation' = outcome
            /\ wait_time' = 0
            /\ video_pc' = "loop"
            /\ video_result' = video_result
    /\ UNCHANGED <<videoFixed, year_info>>

\* a slip: the loop without its ceiling
KeepsWaitingUncapped(op, waited) == op = "running"

\* line 200
KeepsWaiting(op, waited) == op = "running" /\ waited < max_wait_time

\* lines 200-203
Sleep ==
    /\ video_pc = "loop"
    /\ KeepsWaiting(video_operation, wait_time)
    /\ video_calls' = Append(video_calls, VideoCall("sleep", "slept"))
    /\ wait_time' = wait_time + PollInterval
    /\ video_pc' = "poll"
    /\ UNCHANGED <<videoFixed, year_info, video_operation, video_result>>

\* a slip: a raising poll swallowed, the loop going on with the operation
\* it had
AfterPollSwallowed(outcome) == "loop"

\* lines 204-208: a raising poll is raised again, to the handler of line 254
AfterPoll(outcome) == IF outcome = "raises" THEN "done" ELSE "loop"

Poll(outcome) ==
    /\ video_pc = "poll"
    /\ video_calls' = Append(video_calls, VideoCall("operations.get", outcome))
    /\ video_pc' = AfterPoll(outcome)
    /\ video_operation' = IF outcome = "raises" THEN video_operation ELSE outcome
    /\ video_result' = IF AfterPoll(outcome) = "done" THEN VideoReturned("none")
                       ELSE video_result
    /\ UNCHANGED <<videoFixed, year_info, wait_time>>

\* a slip: the time waited taken for a timeout, whatever the last poll
\* reported
TimedOutByClock(op, waited) == waited >= max_wait_time

\* lines 210-212: if not operation.done
TimedOut(op, waited) == op = "running"

\* lines 210-256
AfterLoop ==
    /\ video_pc = "loop"
    /\ ~KeepsWaiting(video_operation, wait_time)
    /\ LET downloads == /\ ~TimedOut(video_operation, wait_time)
                        /\ video_operation \in {"download_fails", "video"}
       IN  /\ video_calls' = IF downloads
                             THEN Append(video_calls,
                                         VideoCall("files.download",
                                                   IF video_operation = "video"
                                                   THEN "saved" ELSE "raises"))
                             ELSE video_calls
           /\ video_result' = VideoReturned(IF downloads /\ video_operation = "video"
                                            THEN "output_path" ELSE "none")
    /\ video_pc' = "done"
    /\ UNCHANGED <<videoFixed, year_info, wait_time, video_operation>>

VideoNext ==
    \/ VideoEnter
    \/ PrepareImage
    \/ \E outcome \in CallOutcomes : SubmitJob(outcome)
    \/ Sleep
    \/ \E outcome \in CallOutcomes : Poll(outcome)
    \/ AfterLoop

(***************************************************************************)
(* crop_image on a box of integers.                                        *)
(***************************************************************************)
CropBoxes ==
    [x : -1 .. MaxDim + 1, y : -1 .. MaxDim + 1,
     width : -1 .. MaxDim + 1, height : -1 .. MaxDim + 1]

NotCropped == [left |-> -1, top |-> -1, right |-> -1, bottom |-> -1, done |-> FALSE]

\* a slip: the size bounded by the index of the last pixel
CropImageToLastPixel(box, original_width, original_height) ==
    LET x == Max(0, Min(box.x, original_width))
        y == Max(0, Min(box.y, original_height))
        w == Min(box.width, original_width - 1 - x)
        h == Min(box.height, original_height - 1 - y)
    IN  [left |-> x, top |-> y, right |-> x + w, bottom |-> y + h, done |-> TRUE]

\* lines 24-36: the rectangle (left, top, right, bottom) handed to img.crop
crop_image(box, original_width, original_height) ==
    LET x == Max(0, Min(box.x, original_width))
        y == Max(0, Min(box.y, original_height))
        w == Min(box.width, original_width - x)
        h == Min(box.height, original_height - y)
    IN  [left |-> x, top |-> y, right |-> x + w, bottom |-> y + h, done |-> TRUE]

CropImage ==
    /\ ~cropped.done
    /\ cropped' = crop_image(bbox, image_width, image_height)
    /\ UNCHANGED <<boxVars, parseVars, topicVars, relatedVars, analysisVars, fetchVars,
                   restoreVars, videoVars, routeVars>>

\* routes.py lines 72-79: process_image crops the uploaded image to the box
\* of the analysis, here the box normalize_bounding_box returned for it; a
\* normalizer that raised leaves no box to crop
CropNormalized ==
    /\ normalized.error = "none"
    /\ ~cropped.done
    /\ cropped' = crop_image(normalized, image_width, image_height)
    /\ UNCHANGED <<boxVars, parseVars, topicVars, relatedVars, analysisVars, fetchVars,
                   restoreVars, videoVars, routeVars>>

(***************************************************************************)
(* The endpoints process_image and generate_video_endpoint, serving two    *)
(* clients.  Both handlers are coroutines without an await, so the one     *)
(* event loop of the server (main.py:26) runs each request to its end      *)
(* before it starts another: a request is one step.                        *)
(***************************************************************************)
Clients == {1, 2}
FileNames == {"a.jpg", "b.jpg"}
Uploads == [filename : FileNames, type : {"image", "video"}]

\* routes.py:51, 78, 83, 145: a directory and a prefix in front of the name
\* of the upload ("video_" and the stem of the restored file for the video)
Path(kind, filename) == <<kind, filename>>
Paths == {Path(kind, f) : kind \in {"upload", "cropped", "restored", "video"}, f \in FileNames}

NothingDerived == [analysis |-> 0, cropped |-> 0, restored |-> 0, video |-> 0]

routeFixed ==
    <<uploads, boxVars, parseVars, topicVars, relatedVars, analysisVars, fetchVars,
      restoreVars, videoVars, cropped>>

\* lines 50-97 for a client's upload: the upload is written, analysed and,
\* if it is an image, cropped and restored, each from the file the former
\* step left; an exception after the analysis ends the request (line 97)
ProcessImage(c, succeeds) ==
    /\ route_pc[c] = "new"
    /\ LET f == uploads[c].filename
           saved == [files EXCEPT ![Path("upload", f)] = c]
           crop == [saved EXCEPT ![Path("cropped", f)] = saved[Path("upload", f)]]
           restore == [crop EXCEPT ![Path("restored", f)] = crop[Path("cropped", f)]]
       IN  IF uploads[c].type = "video" \/ ~succeeds
           THEN /\ files' = saved
                /\ derived' = [derived EXCEPT ![c].analysis = saved[Path("upload", f)]]
                /\ route_pc' = [route_pc EXCEPT ![c] =
                                   IF uploads[c].type = "video" THEN "analyzed" ELSE "failed"]
           ELSE /\ files' = restore
                /\ derived' = [derived EXCEPT
                                  ![c].analysis = saved[Path("upload", f)],
                                  ![c].cropped = crop[Path("cropped", f)],
                                  ![c].restored = restore[Path("restored", f)]]
                /\ route_pc' = [route_pc EXCEPT ![c] = "processed"]
    /\ UNCHANGED routeFixed

\* lines 127-164 for the restored path a client was handed: the video is
\* made from the file now at that path
GenerateVideoEndpoint(c, made) ==
    /\ route_pc[c] = "processed"
    /\ LET f == uploads[c].filename
       IN  /\ files[Path("restored", f)] # 0
           /\ IF made
              THEN /\ files' = [files EXCEPT ![Path("video", f)] = files[Path("restored", f)]]
                   /\ derived' = [derived EXCEPT ![c].video = files[Path("restored", f)]]
                   /\ route_pc' = [route_pc EXCEPT ![c] = "animated"]
              ELSE /\ route_pc' = [route_pc EXCEPT ![c] = "not animated"]
                   /\ UNCHANGED <<files, derived>>
    /\ UNCHANGED routeFixed

RoutesNext ==
    \/ \E c \in Clients, succeeds \in BOOLEAN : ProcessImage(c, succeeds)
    \/ \E c \in Clients, made \in BOOLEAN : GenerateVideoEndpoint(c, made)

(***************************************************************************)
(* Specifications: one per operation, the other operations idle.           *)
(***************************************************************************)
\* the state before a call of operation op: its arguments drawn from the
\* bounded sets, every other operation's variables at rest
Start(op) ==
    /\ IF op = "normalize_bounding_box"
       THEN bbox \in RawBoxes /\ image_width \in Dims /\ image_height \in Dims
       ELSE IF op = "crop_image"
       THEN bbox \in CropBoxes /\ image_width \in Dims /\ image_height \in Dims
       ELSE bbox = EmptyBox /\ image_width = 1 /\ image_height = 1
    /\ cropped = NotCropped
    /\ IF op = "routes" THEN uploads \in [Clients -> Uploads]
       ELSE uploads = [c \in Clients |-> [filename |-> "a.jpg", type |-> "image"]]
    /\ files = [path \in Paths |-> 0]
    /\ route_pc = [c \in Clients |-> IF op = "routes" THEN "new" ELSE "idle"]
    /\ derived = [c \in Clients |-> NothingDerived]
    /\ normalized = Pending
    /\ IF op = "parse_gemini_json_response"
       THEN response_text \in Texts
       ELSE response_text = <<>>
    /\ parsed = NotParsed
    /\ IF op = "extract_topics_from_metadata"
       THEN metadata \in Metadatas
       ELSE IF op \in {"restore_image", "generate_video_from_image"}
       THEN metadata \in PayloadMetadatas
       ELSE metadata = EmptyMetadata
    /\ extracted_topics = NoTopicsYet
    /\ IF op = "fetch"
       THEN /\ fetch_op \in FetchOperations
            /\ IF fetch_op = "fetch_multiple_wikipedia_pages"
               THEN fetch_topics \in {SubSeq(AllTopics, 1, n) : n \in 0 .. MaxTopics}
               ELSE fetch_topics = <<>>
            /\ fetch_pc = IF fetch_op = "fetch_wikipedia_page" THEN At("page", 0, 0)
                          ELSE IF fetch_op = "get_related_wikipedia_pages"
                          THEN At("idle", 0, 0)
                          ELSE At("context", 1, 1)
       ELSE /\ fetch_op = "fetch_wikipedia_page"
            /\ fetch_topics = <<>>
            /\ fetch_pc = At("idle", 0, 0)
    /\ IF op = "get_related_wikipedia_pages"
          \/ (op = "fetch" /\ fetch_op = "get_related_wikipedia_pages")
       THEN location \in Locations /\ era \in Eras /\ related_pc = "search"
       ELSE /\ IF op = "analyze" THEN location \in RequestLocations
               ELSE IF op = "fetch" THEN location \in Locations
               ELSE location = Sample.Paris
            /\ era = MidCentury /\ related_pc = "idle"
    /\ related_pages = <<>>
    /\ searches = <<>>
    /\ related_result = NoRelatedYet
    /\ IF op = "restore_image"
       THEN /\ colorize \in BOOLEAN
            /\ input_readable \in BOOLEAN
            /\ restore_pc = "enter"
       ELSE /\ colorize = TRUE
            /\ IF op = "generate_video_from_image" THEN input_readable \in BOOLEAN
               ELSE input_readable = TRUE
            /\ restore_pc = "idle"
    /\ video_pc = IF op = "generate_video_from_image" THEN "enter" ELSE "idle"
    /\ wait_time = 0
    /\ video_operation = "none"
    /\ video_calls = <<>>
    /\ video_result = NoVideoYet
    /\ response = NoResponse
    /\ output_file = NoOutput
    /\ restore_result = NotRestored
    /\ year_info = "none"
    /\ IF op = "analyze"
       THEN /\ operation \in Operations
            /\ gemini_client \in BOOLEAN
            /\ user_context \in UserContexts
            /\ IF operation = "analyze_image"
               THEN width \in Dims /\ height \in Dims
               ELSE width = 1 /\ height = 1
            /\ analysis_pc = "enter"
       ELSE /\ operation = "analyze_image"
            /\ IF op \in {"restore_image", "generate_video_from_image"}
               THEN gemini_client \in BOOLEAN
               ELSE gemini_client = FALSE
            /\ user_context = <<>>
            /\ width = 1 /\ height = 1
            /\ analysis_pc = "idle"
    /\ calls = <<>>
    /\ failed_at = "none"
    /\ wikipedia_data = NoWikipediaData
    /\ link_pages = <<>>
    /\ link_lookups = <<>>
    /\ prompt = NoPrompt
    /\ result = NoPayload
    /\ bounding_box = NoBox
    /\ analysis_result = NoResult
    /\ requests = <<>>
    /\ last_response = "none"
    /\ combined = EmptyCombined
    /\ fetch_result = NoFetchResult

SpecBox == Start("normalize_bounding_box") /\ [][Normalize]_vars

SpecParse == Start("parse_gemini_json_response") /\ [][Parse]_vars

SpecTopics == Start("extract_topics_from_metadata") /\ [][ExtractTopics]_vars

SpecRelated == Start("get_related_wikipedia_pages") /\ [][RelatedNext]_vars

SpecAnalyze == Start("analyze") /\ [][AnalyzeNext]_vars

SpecFetch == Start("fetch") /\ [][FetchNext]_vars

SpecRestore == Start("restore_image") /\ [][RestoreNext]_vars

SpecCrop == Start("crop_image") /\ [][CropImage]_vars
\* normalize_bounding_box on any raw box, then crop_image on its result
SpecNormalizeCrop == Start("normalize_bounding_box") /\ [][Normalize \/ CropNormalized]_vars

SpecRoutes == Start("routes") /\ [][RoutesNext]_vars

\* the call runs on: a step that can be taken is taken
SpecVideo ==
    Start("generate_video_from_image") /\ [][VideoNext]_vars /\ WF_vars(VideoNext)

(***************************************************************************)
(* Claims about normalize_bounding_box (checked under SpecBox).            *)
(***************************************************************************)
IntOrMissing(v) == v.kind \in {"missing", "int"}

IntegerBox == /\ IntOrMissing(bbox.x) /\ IntOrMissing(bbox.y)
              /\ IntOrMissing(bbox.width) /\ IntOrMissing(bbox.height)

\* the BoundingBox invariant of a returned box b for a w x h image
BoxInvariant(b, w, h) ==
    /\ 0 <= b.x /\ b.x < w
    /\ 0 <= b.y /\ b.y < h
    /\ b.width >= 1 /\ b.height >= 1
    /\ b.x + b.width <= w
    /\ b.y + b.height <= h

\* C1: for every raw box whose fields are each missing or any integer and
\* every image size W >= 1, H >= 1, normalize_bounding_box returns a box with
\* 0 <= x < W, 0 <= y < H, width >= 1, height >= 1, x + width <= W and
\* y + height <= H.
C1_NormalizedBoxInBounds ==
    (normalized # Pending /\ IntegerBox) =>
        /\ normalized.error = "none"
        /\ BoxInvariant(normalized, image_width, image_height)

\* a negative x and an oversized width were clamped
C1_Witness ==
    /\ normalized.error = "none"
    /\ bbox.x = JInt(-1) /\ bbox.width = JInt(MaxDim + 1)
    /\ bbox.y = JInt(image_height) /\ bbox.height = Missing
    /\ normalized.x = 0 /\ normalized.width = image_width
    /\ normalized.y = image_height - 1 /\ normalized.height = 1

\* C4: normalize_bounding_box never fails: for every raw partial box the
\* parsed payload can supply (a field missing, or present with any JSON
\* value: null, non-numeric text, a nested object) it returns a box and
\* raises no error.
C4_NormalizeNeverRaises ==
    normalized # Pending => normalized.error = "none"

\* 'default then clamp' in integer arithmetic, for integer or missing fields
RefNormalize(raw, w, h) ==
    LET dx == IF raw.x.kind = "missing" THEN w \div 10 ELSE raw.x.val
        dy == IF raw.y.kind = "missing" THEN h \div 10 ELSE raw.y.val
        dw == IF raw.width.kind = "missing" THEN (8 * w) \div 10 ELSE raw.width.val
        dh == IF raw.height.kind = "missing" THEN (8 * h) \div 10 ELSE raw.height.val
        cx == IF dx < 0 THEN 0 ELSE IF dx > w - 1 THEN w - 1 ELSE dx
        cy == IF dy < 0 THEN 0 ELSE IF dy > h - 1 THEN h - 1 ELSE dy
        cw == IF dw < 1 THEN 1 ELSE IF dw > w - cx THEN w - cx ELSE dw
        ch == IF dh < 1 THEN 1 ELSE IF dh > h - cy THEN h - cy ELSE dh
    IN  [error |-> "none", x |-> cx, y |-> cy, width |-> cw, height |-> ch]

\* the two worked examples of the normalizer, and the defaults of every image
\* side up to MaxSide
NormalizeExamples ==
    /\ normalize_bounding_box(EmptyBox, 1000, 800)
          = [error |-> "none", x |-> 100, y |-> 80, width |-> 800, height |-> 640]
    /\ LET r == normalize_bounding_box(
                    [x |-> JInt(-50), y |-> JInt(10), width |-> JInt(2000),
                     height |-> JInt(50)], 1000, 800)
       IN  r.error = "none" /\ r.x = 0 /\ r.width <= 1000
    /\ \A w \in 1 .. MaxSide :
          normalize_bounding_box(EmptyBox, w, MaxSide + 1 - w)
            = RefNormalize(EmptyBox, w, MaxSide + 1 - w)

\* C5: for all integer inputs normalize_bounding_box equals 'default then
\* clamp': a missing field defaults to x = trunc(0.1 W), y = trunc(0.1 H),
\* width = trunc(0.8 W), height = trunc(0.8 H); then x <- max(0, min(x, W-1)),
\* y <- max(0, min(y, H-1)), width <- max(1, min(width, W - x)),
\* height <- max(1, min(height, H - y)) with the clamped x and y; and
\* normalize({}, 1000, 800) = {100, 80, 800, 640}, and
\* normalize({x:-50, y:10, width:2000, height:50}, 1000, 800) has x = 0 and
\* width <= 1000.
C5_NormalizeIsDefaultThenClamp ==
    /\ (normalized # Pending /\ IntegerBox) =>
          normalized = RefNormalize(bbox, image_width, image_height)
    /\ NormalizeExamples

\* defaults were used for x and height, beside a given y and width
C5_Witness ==
    /\ normalized.error = "none"
    /\ bbox.x = Missing /\ bbox.height = Missing
    /\ bbox.y = JInt(1) /\ bbox.width = JInt(2)
    /\ image_width = MaxDim /\ image_height = MaxDim
    /\ normalized.height = (8 * MaxDim) \div 10

(***************************************************************************)
(* Claims about parse_gemini_json_response (checked under SpecParse).      *)
(***************************************************************************)
Opens == {i \in 1 .. Len(response_text) : response_text[i] = "{"}
Closes == {i \in 1 .. Len(response_text) : response_text[i] = "}"}
FirstOpen == CHOOSE i \in Opens : \A j \in Opens : i <= j
LastClose == CHOOSE i \in Closes : \A j \in Closes : i >= j

\* the text has a "{" followed later by a "}"
HasSpan == Opens # {} /\ Closes # {} /\ FirstOpen < LastClose
Span == SubSeq(response_text, FirstOpen, LastClose)

\* the text is prose without braces or quotes, then one object, then prose
ProseAroundObject(pre, obj, post) ==
    /\ response_text = pre \o obj \o post
    /\ \A i \in 1 .. Len(pre) : pre[i] = "p"
    /\ \A i \in 1 .. Len(post) : post[i] = "p"
    /\ obj # <<>> /\ obj[1] = "{" /\ Decodes(obj)

\* no stretch of the text is valid structured data
NothingDecodes ==
    \A i \in 1 .. Len(response_text) : \A j \in i .. Len(response_text) :
        ~Decodes(SubSeq(response_text, i, j))

\* C7: parse_gemini_json_response decodes the span from the first "{" to the
\* last "}" when the text has a "{" followed later by a "}", and returns its
\* value if it decodes; only otherwise it decodes the entire text and returns
\* that; it fails with ValueError exactly when neither decodes.  So prose
\* around one object yields that object, and a text with no valid structured
\* data fails.
C7_ParseTwoStrategies ==
    parsed # NotParsed =>
        /\ (HasSpan /\ Decodes(Span)) => parsed = Parsed(JsonValue(Span))
        /\ (~(HasSpan /\ Decodes(Span)) /\ Decodes(response_text))
              => parsed = Parsed(JsonValue(response_text))
        /\ (parsed.error = "ValueError")
              <=> (~(HasSpan /\ Decodes(Span)) /\ ~Decodes(response_text))
        /\ \A n \in 0 .. Len(response_text) : \A m \in n .. Len(response_text) :
              ProseAroundObject(SubSeq(response_text, 1, n),
                                SubSeq(response_text, n + 1, m),
                                SubSeq(response_text, m + 1, Len(response_text)))
                => parsed = Parsed([type |-> "object",
                                    text |-> SubSeq(response_text, n + 1, m)])
        /\ NothingDecodes => parsed.error = "ValueError"

\* 'Here is the result: {"a":1} thanks' yields the object
C7_Witness ==
    /\ response_text = <<"p", "{", "k", "1", "}", "p">>
    /\ parsed = Parsed([type |-> "object", text |-> <<"{", "k", "1", "}">>])


(***************************************************************************)
(* Claims about extract_topics_from_metadata, checked under SpecTopics.    *)
(***************************************************************************)
PairwiseDistinct(list) ==
    \A i \in 1 .. Len(list) : \A j \in 1 .. Len(list) : list[i] = list[j] => i = j

\* the index at which x is first discovered in the list of matches
FirstIndex(list, x) ==
    CHOOSE i \in 1 .. Len(list) : list[i] = x /\ \A j \in 1 .. i - 1 : list[j] # x

\* list[lo .. hi] are elements of found, in their order of discovery
InDiscoveryOrder(list, lo, hi, found) ==
    /\ \A i \in lo .. hi : list[i] \in Elems(found)
    /\ \A i \in lo .. hi : \A j \in i + 1 .. hi :
          FirstIndex(found, list[i]) < FirstIndex(found, list[j])

\* the title-case phrases that pass 1 does not reject
NotRejected(phrases) == SelectSeq(phrases, LAMBDA m : m \notin skip_words /\ ~StartsWithYear(m))

\* the topics are title-case phrases that pass 1 keeps, in order of
\* discovery, followed by keyword pairs that pass 1 did not keep, in order
\* of discovery
PassOneThenPassTwo(topics, phrases, pairs) ==
    \E k \in 0 .. Len(topics) :
        /\ InDiscoveryOrder(topics, 1, k, NotRejected(phrases))
        /\ InDiscoveryOrder(topics, k + 1, Len(topics), pairs)
        /\ \A i \in k + 1 .. Len(topics) : topics[i] \notin Elems(NotRejected(phrases))

\* C8: extract_topics_from_metadata returns at most 5 topics, no two equal;
\* the topics found by pass 1 (title-case phrases) come first, in their order
\* of discovery in the combined text, and the topics added by pass 2 (keyword
\* pairs) follow, in their order of discovery.
C8_TopicsOrderedDistinctAtMostFive ==
    extracted_topics.returned =>
        LET topics == extracted_topics.topics
            combined_text == CombinedText(metadata)
        IN  /\ Len(topics) <= 5
            /\ PairwiseDistinct(topics)
            /\ PassOneThenPassTwo(topics, CapitalizedMatches(combined_text, 1),
                                  PatternTopics(combined_text, 1))

\* five topics are returned, the last of them added by pass 2
C8_Witness ==
    /\ extracted_topics.returned
    /\ Len(extracted_topics.topics) = 5
    /\ extracted_topics.topics[4]
          \in Elems(NotRejected(CapitalizedMatches(CombinedText(metadata), 1)))
    /\ extracted_topics.topics[5]
          \notin Elems(NotRejected(CapitalizedMatches(CombinedText(metadata), 1)))
    /\ extracted_topics.topics[5] \in Elems(PatternTopics(CombinedText(metadata), 1))

\* C9: on metadata whose only text is "The Civil Rights Movement changed the
\* South." the returned list has "Civil Rights Movement" among its elements.
C9_CivilRightsMovementIncluded ==
    (extracted_topics.returned /\ TextFields(metadata) = <<Sample.CivilRightsSentence>>)
        => Sample.CivilRightsMovement \in Elems(extracted_topics.topics)

(***************************************************************************)
(* Claims about get_related_wikipedia_pages, checked under SpecRelated.    *)
(***************************************************************************)
\* C10: get_related_wikipedia_pages returns at most 3 titles, no two equal,
\* whatever the location, the era and the answers to the searches, also
\* when several of the three searches answer with the same title.
C10_AtMostThreeDistinctTitles ==
    /\ PairwiseDistinct(related_pages)
    /\ related_result.returned =>
          /\ Len(related_result.titles) <= 3
          /\ PairwiseDistinct(related_result.titles)

\* three titles are returned after a later search answered with a title
\* that an earlier search had already contributed
C10_Witness ==
    /\ related_result.returned
    /\ Len(related_result.titles) = 3
    /\ \E i \in 2 .. Len(searches) : searches[i].repeats >= 1

(***************************************************************************)
(* Claims about analyze_image and analyze_video, checked under             *)
(* SpecAnalyze.                                                            *)
(***************************************************************************)
\* C2: analyze_image and analyze_video never raise: whatever fails at any
\* stage, the request ends with a returned mapping that has metadata and,
\* for an image, a bounding box.
C2_AnalysisNeverRaises ==
    /\ analysis_result.status # "raised"
    /\ analysis_pc = "done" =>
          /\ analysis_result.status = "returned"
          /\ operation = "analyze_image" => analysis_result.has_box

\* C3: every bounding box analyze_image returns, on the normalized path and
\* on both mock paths, satisfies 0 <= x < W, 0 <= y < H, width >= 1,
\* height >= 1, x + width <= W, y + height <= H.
C3_ReturnedBoxInBounds ==
    (analysis_result.status = "returned" /\ analysis_result.has_box)
        => BoxInvariant(analysis_result.bounding_box, width, height)

\* the centred 80% x 80% region, truncated toward zero
CentredBox(w, h) == Box(w \div 10, h \div 10, (8 * w) \div 10, (8 * h) \div 10)

\* the mock box is the centred region for sizes up to MaxSide
MockBoxExamples ==
    \A w \in 1 .. MaxSide : MockBox(w, MaxSide + 1 - w) = CentredBox(w, MaxSide + 1 - w)

\* C6: with the vision backend not configured the request goes straight to
\* the mock result with no call to the vision model or the encyclopedia;
\* analyze_image returns the centred 80% x 80% box (x = W div 10,
\* y = H div 10, width = 8W div 10, height = 8H div 10) and metadata with
\* year "1980" and decade "1980s"; analyze_video returns metadata with
\* estimated_year "1950-1960" and no bounding box.
C6_UnconfiguredBackendMock ==
    /\ MockBoxExamples
    /\ ~gemini_client =>
          /\ \A i \in 1 .. Len(calls) :
                calls[i].fn \notin VisionCalls \cup EncyclopediaCalls
          /\ analysis_pc \in {"enter", "mock", "done"}
          /\ analysis_result.status = "returned" =>
                /\ analysis_result.path = "unavailable"
                /\ operation = "analyze_image" =>
                      /\ analysis_result.has_box
                      /\ analysis_result.bounding_box = CentredBox(width, height)
                      /\ {"year", "decade"} \subseteq analysis_result.metadata.keys
                      /\ analysis_result.metadata.year = "1980"
                      /\ analysis_result.metadata.decade = "1980s"
                /\ operation = "analyze_video" =>
                      /\ ~analysis_result.has_box
                      /\ "estimated_year" \in analysis_result.metadata.keys
                      /\ analysis_result.metadata.estimated_year = "1950-1960"

\* an image request with the backend not configured has returned its mock
\* result for an image one pixel wide
C6_Witness ==
    /\ ~gemini_client
    /\ operation = "analyze_image"
    /\ analysis_result.status = "returned"
    /\ width = 1 /\ height = MaxDim
    /\ user_context # <<>>

\* C11: get_related_wikipedia_pages never returns the queried location
\* itself: whatever the location (also one with a comma-separated suffix)
\* and the candidate titles, no returned title equals the location.
C11_LocationNeverReturned ==
    related_result.returned =>
        \A i \in 1 .. Len(related_result.titles) : related_result.titles[i] # location

\* text contains one of the words
ContainsAny(text, words) == \E k \in 1 .. Len(words) : Contains(text, words[k])

\* the filter as stated, with place the text the title is looked up for
PassesFilter(title, place, e) ==
    LET title_lower == Lower(title)
    IN  /\ ~Contains(title_lower, Disambiguation)
        /\ ~ContainsAny(title_lower, skip_keywords)
        /\ \/ Contains(title_lower, History)
           \/ Contains(title_lower, Lower(e))
           \/ Contains(title_lower, Lower(place))
           \/ ContainsAny(title_lower, related_keywords)

\* the filter for every location, era and title of the model, with the
\* location as passed in and with the location cut at its first comma
FilterTable ==
    [loc \in Locations |-> [e \in Eras |-> [title \in Titles |->
        [stated |-> PassesFilter(title, loc, e),
         stripped |-> PassesFilter(title, CleanedLocation(loc), e)]]]]

\* C12 (amended): every title get_related_wikipedia_pages holds or returns
\* has no "disambiguation", none of the block-list keywords, and contains
\* "history", the era, the location cut at its first comma, or a historical
\* keyword, compared in lower case.
C12_ReturnedTitlesPassFilter ==
    /\ \A i \in 1 .. Len(related_pages) :
          FilterTable[location][era][related_pages[i]].stripped
    /\ related_result.returned =>
          \A i \in 1 .. Len(related_result.titles) :
              FilterTable[location][era][related_result.titles[i]].stripped

\* C12 (as stated): every returned title passes the filter taken with the
\* location string that was passed in.
C12_ReturnedTitlesContainLocation ==
    related_result.returned =>
        \A i \in 1 .. Len(related_result.titles) :
            FilterTable[location][era][related_result.titles[i]].stated

\* titles were returned for a location with a suffix after candidates that
\* fail the filter had been examined
C12_Witness ==
    /\ related_result.returned
    /\ location = Sample.ParisFrance
    /\ Len(related_result.titles) >= 2
    /\ \E i \in 1 .. Len(searches) :
          searches[i].examined = 2 /\ searches[i].repeats = 0
          /\ Len(related_result.titles) < 2 * i

(***************************************************************************)
(* Claim C13                                                               *)
(***************************************************************************)
\* the pieces of a text that topic pages contributed: the prefix
\* "Context about <topic>: " and what follows it
TopicPrefixes(text) == {i \in 1 .. Len(text) : text[i].what = "Context about"}

\* C13: fetch_multiple_wikipedia_pages returns a combined_text of at most
\* 2000 characters for every number of topics and every size of extract; the
\* text of the location is at most 1000 characters, and a topic contributes
\* its prefix "Context about <topic>: " followed by at most the first 500
\* characters of its extract.
C13_CombinedTextBounded ==
    fetch_op = "fetch_multiple_wikipedia_pages" =>
        /\ \A i \in TopicPrefixes(combined.combined_text) :
               /\ combined.combined_text[i].len = 14 + Len(combined.combined_text[i].about) + 2
               /\ combined.combined_text[i + 1].what = "extract"
               /\ combined.combined_text[i + 1].about = combined.combined_text[i].about
               /\ combined.combined_text[i + 1].len <= 500
        /\ combined.location.found => TextLen(combined.location.text) <= 1000
        /\ fetch_result.status = "returned" =>
               /\ TextLen(fetch_result.value.combined_text) <= 2000
               /\ fetch_result.value.combined_text
                      = Cut(combined.combined_text, TextLen(fetch_result.value.combined_text))
               /\ fetch_result.value.location = combined.location

\* a call that found the location and two topics, each with an extract of
\* 1200 characters, so that each of the three cuts shortened something
C13_Witness ==
    /\ fetch_op = "fetch_multiple_wikipedia_pages"
    /\ fetch_result.status = "returned"
    /\ combined.location.found
    /\ TextLen(combined.location.text) = 1000
    /\ Len(combined.topics) = 2
    /\ \A i \in 1 .. 2 : TextLen(combined.topics[i].extract) = 1200
    /\ TextLen(combined.combined_text) > 2000
    /\ TextLen(fetch_result.value.combined_text) = 2000


(***************************************************************************)
(* Claim C14                                                               *)
(***************************************************************************)
\* the requests of a finished fetch_multiple_wikipedia_pages call that
\* fetched the location, and those that fetched a topic
ContextRequests == 1 .. (Len(requests) - Len(fetch_topics))
TopicRequests == (Len(requests) - Len(fetch_topics) + 1) .. Len(requests)

\* C14: no encyclopedia operation raises on a timeout, a connection error, a
\* status other than 200, an undecodable body or a body without an extract:
\* fetch_wikipedia_page and fetch_wikipedia_context return none,
\* get_related_wikipedia_pages returns a (possibly empty) list and
\* fetch_multiple_wikipedia_pages returns its mapping with exactly the parts
\* that were fetched.
C14_NoEncyclopediaOperationRaises ==
    /\ fetch_result.status = "raised" => last_response = "non_text"
    /\ fetch_result.status = "returned" =>
          /\ fetch_op = "fetch_wikipedia_page" /\ last_response \in HttpFailures
                => fetch_result.value = NoPage
          /\ fetch_op = "fetch_wikipedia_context"
                /\ (\A i \in 1 .. Len(requests) : ~requests[i].found)
                => /\ fetch_result.value = NoContext
                   /\ Len(requests) = 2
          /\ fetch_op = "fetch_multiple_wikipedia_pages"
                => /\ fetch_result.value.location.found
                          <=> \E i \in ContextRequests : requests[i].found
                   /\ Len(fetch_result.value.topics)
                          = Cardinality({i \in TopicRequests : requests[i].found})
                   /\ \A i \in 1 .. Len(fetch_result.value.topics) :
                          \E k \in TopicRequests :
                             /\ requests[k].found
                             /\ requests[k].title = fetch_result.value.topics[i].title
                   /\ Len(fetch_result.value.related_pages)
                          = Len(fetch_result.value.topics)
                            + (IF fetch_result.value.location.found THEN 1 ELSE 0)
    /\ related_pc = "done" =>
          /\ related_result.returned
          /\ Len(related_result.titles) <= 3
          /\ (\A i \in 1 .. Len(searches) : searches[i].kind # "titles")
                => related_result.titles = <<>>

\* fetch_multiple_wikipedia_pages for "Paris, France": the four requests for
\* the location failed, a topic was fetched, the request of the last topic
\* timed out
C14_Witness ==
    /\ fetch_op = "fetch_multiple_wikipedia_pages"
    /\ fetch_result.status = "returned"
    /\ location = Sample.ParisFrance
    /\ Len(fetch_topics) = 2
    /\ Len(requests) = 6
    /\ ~fetch_result.value.location.found
    /\ Len(fetch_result.value.topics) = 1
    /\ last_response = "timeout"


(***************************************************************************)
(* Claim C15 (checked under SpecRestore)                                   *)
(***************************************************************************)
ImageParts(parts) == {i \in 1 .. Len(parts) : parts[i] = "image"}

\* C15: restore_image never fails and always writes and returns the output
\* path: with the backend unavailable, raising or answering without an image
\* part the output is the fallback (the input when colorize is true, its
\* grayscale conversion when it is false); with image parts in the response
\* the output is the first of them.
C15_RestoreNeverFails ==
    restore_pc = "done" =>
        /\ restore_result = [status |-> "returned", path |-> "output_path"]
        /\ IF ImageParts(response.parts) = {}
           THEN output_file = FallbackOutput(colorize)
           ELSE \E i \in ImageParts(response.parts) :
                   /\ output_file = Output("part", i)
                   /\ \A k \in ImageParts(response.parts) : i <= k


(***************************************************************************)
(* Claims C16 and C17 (checked under SpecVideo)                            *)
(***************************************************************************)
CallsOf(fn) == {i \in 1 .. Len(video_calls) : video_calls[i].fn = fn}

\* each poll comes right after a sleep of PollInterval seconds, each sleep is
\* followed by a poll, the seconds slept are the seconds counted, and the
\* count stops at max_wait_time
PollLoopBounded ==
    /\ \A i \in CallsOf("operations.get") : i > 1 /\ video_calls[i - 1].fn = "sleep"
    /\ \A i \in CallsOf("sleep") :
          IF i = Len(video_calls) THEN video_pc = "poll"
          ELSE video_calls[i + 1].fn = "operations.get"
    /\ wait_time = PollInterval * Cardinality(CallsOf("sleep"))
    /\ wait_time <= max_wait_time
    /\ Cardinality(CallsOf("operations.get")) <= 30
    /\ video_pc = "done" /\ video_operation = "running" => video_result = VideoReturned("none")

\* C16: generate_video_from_image always terminates: while the operation is
\* not done the loop sleeps 10 seconds before each poll, polls at most 30
\* times (300 seconds of waiting), then the call returns None.
C16_PollLoopTerminates == [](PollLoopBounded) /\ <>(video_pc = "done")

\* an operation that never reported done: 30 sleeps, 30 polls, None
C16_Witness ==
    /\ video_pc = "done"
    /\ video_operation = "running"
    /\ wait_time = max_wait_time
    /\ Cardinality(CallsOf("operations.get")) = 30
    /\ Cardinality(CallsOf("sleep")) = 30
    /\ video_result = VideoReturned("none")


\* the one way to a video: a backend, a readable image, no call that raised
\* and a done operation that holds a video whose download succeeds
VideoMade ==
    /\ gemini_client
    /\ input_readable
    /\ video_operation = "video"
    /\ \A i \in 1 .. Len(video_calls) : video_calls[i].outcome # "raises"

\* the job is submitted at most once, first; nothing is polled after a call
\* that raised or handed back a done operation; a finished call returned
\* the output path if a video was made and None otherwise
VideoFailuresTerminal ==
    /\ Cardinality(CallsOf("generate_videos")) <= 1
    /\ CallsOf("generate_videos") \subseteq {1}
    /\ ~gemini_client \/ ~input_readable => video_calls = <<>>
    /\ \A i \in CallsOf("sleep") \cup CallsOf("operations.get") :
          \A k \in 1 .. i - 1 : video_calls[k].outcome \in {"running", "slept"}
    /\ \A i \in CallsOf("files.download") :
          /\ i = Len(video_calls)
          /\ video_calls[i - 1].outcome \in {"video", "download_fails"}
    /\ (\E i \in 1 .. Len(video_calls) : video_calls[i].outcome = "raises")
          => video_pc = "done"
    /\ video_pc = "done" =>
          video_result = VideoReturned(IF VideoMade THEN "output_path" ELSE "none")

\* C17: generate_video_from_image returns None and never raises on every
\* failure path (no backend, a raising submission, a raising poll, the
\* timeout, an operation error, no response, filtered media, no generated
\* videos, no file reference, a failing download); each failure ends the
\* call: the job is submitted at most once and nothing is polled after the
\* first failure.
C17_VideoFailuresReturnNone ==
    /\ [](VideoFailuresTerminal)
    /\ [][video_result.status = "returned" => video_calls' = video_calls]_vars

\* a poll that raised after two polls that found the operation running
C17_Witness ==
    /\ video_pc = "done"
    /\ video_result = VideoReturned("none")
    /\ Len(video_calls) = 7
    /\ video_calls[1] = VideoCall("generate_videos", "running")
    /\ video_calls[7] = VideoCall("operations.get", "raises")
    /\ wait_time = 3 * PollInterval


(***************************************************************************)
(* Claim C19 (checked under SpecCrop)                                      *)
(***************************************************************************)
\* C19: for every box of integers, negative and oversized ones included, and
\* every image, the rectangle crop_image crops lies in the image:
\* 0 <= left <= right <= W and 0 <= top <= bottom <= H.
C19_CropWithinImage ==
    cropped.done =>
        /\ 0 <= cropped.left /\ cropped.left <= cropped.right
        /\ cropped.right <= image_width
        /\ 0 <= cropped.top /\ cropped.top <= cropped.bottom
        /\ cropped.bottom <= image_height


(***************************************************************************)
(* Claim C18 (checked under SpecRoutes)                                    *)
(***************************************************************************)
\* the files a client's finished request wrote
FilesOf(c) ==
    {Path("upload", uploads[c].filename)}
    \cup (IF route_pc[c] \in {"processed", "animated", "not animated"}
          THEN {Path("cropped", uploads[c].filename), Path("restored", uploads[c].filename)}
          ELSE {})
    \cup (IF route_pc[c] = "animated" THEN {Path("video", uploads[c].filename)} ELSE {})

\* C18: requests do not interfere, uploads of the same file name included:
\* every result a client gets is computed from that client's own upload, and
\* no request reads or overwrites a file that belongs to another client.
C18_RequestsDoNotInterfere ==
    \A c \in Clients :
        /\ derived[c].analysis \in {0, c}
        /\ derived[c].cropped \in {0, c}
        /\ derived[c].restored \in {0, c}
        /\ derived[c].video \in {0, c}
        /\ route_pc[c] # "new" => \A path \in FilesOf(c) : files[path] = c


(***************************************************************************)
(* Claim C20 (checked under SpecAnalyze)                                   *)
(***************************************************************************)
\* C20: with a backend configured, when a stage of analyze_image fails the
\* result returned is the mock that the path without a backend returns for
\* the same image and user context: it is a function of the image size and
\* the user context alone, whatever the location, the answer of the model
\* and the pages fetched, and it carries no wikipedia_links.
C20_ErrorMockIsUnavailableMock ==
    (/\ analysis_pc = "done"
     /\ operation = "analyze_image"
     /\ gemini_client
     /\ failed_at # "none"
     /\ analysis_result.status = "returned")
    => /\ analysis_result.path = "error"
       /\ analysis_result.has_box
       /\ analysis_result.bounding_box = MockBox(width, height)
       /\ analysis_result.metadata = MockImageMetadata(user_context)
       /\ "wikipedia_links" \notin analysis_result.metadata.keys
       /\ analysis_result.metadata.wikipedia_links = <<>>

\* a request with a location and a user context whose pages were fetched and
\* whose model answer held a usable box, failing at the metadata
C20_Witness ==
    /\ analysis_pc = "done"
    /\ operation = "analyze_image"
    /\ gemini_client
    /\ failed_at = "metadata"
    /\ analysis_result.status = "returned"
    /\ location # <<>>
    /\ user_context # <<>>
    /\ link_pages # <<>>
    /\ result.kind = "mapping"
    /\ bounding_box # NoBox
    /\ bounding_box # MockBox(width, height)


(***************************************************************************)
(* Claims C21 to C26 (checked under SpecAnalyze)                           *)
(***************************************************************************)
CallsTo(fns) == {i \in 1 .. Len(calls) : calls[i].fn \in fns}

\* fetch_multiple_wikipedia_pages returned related pages: the combined text
\* holds the text of a page it fetched
MultipleFoundPages ==
    /\ ~wikipedia_data.none
    /\ \E i \in 1 .. Len(wikipedia_data.combined_text) :
          wikipedia_data.combined_text[i] \in {"location", "topic"}

\* C21: with no location no encyclopedia call precedes the invocation of the
\* model; with a location get_related_wikipedia_pages is called first, then
\* fetch_multiple_wikipedia_pages with the titles it returned, and
\* fetch_wikipedia_context only if that gave no related pages or raised;
\* all of them precede the one invocation of the model.
C21_PromptBuildingOrder ==
    /\ Cardinality(CallsTo(VisionCalls)) <= 1
    /\ ~prompt.built => calls = <<>>
    /\ prompt.built =>
          IF location = <<>>
          THEN \A i \in CallsTo(VisionCalls) : i = 1
          ELSE /\ calls[1] = Call("get_related_wikipedia_pages", location)
               /\ related_result.returned
               /\ calls[2] = Call("fetch_multiple_wikipedia_pages", related_result.titles)
               /\ IF MultipleFoundPages
                  THEN /\ \A i \in CallsTo(VisionCalls) : i = 3
                       /\ \A i \in CallsTo(EncyclopediaCalls) : i <= 2
                  ELSE /\ Len(calls) >= 3
                       /\ calls[3] = Call("fetch_wikipedia_context", location)
                       /\ \A i \in CallsTo(VisionCalls) : i = 4

\* titles were found, fetch_multiple_wikipedia_pages raised, the single
\* page was looked up and the model was invoked after the three calls
C21_Witness ==
    /\ location # <<>>
    /\ related_result.titles # <<>>
    /\ wikipedia_data.none
    /\ Len(calls) >= 4
    /\ calls[3].fn = "fetch_wikipedia_context"
    /\ calls[4].fn \in VisionCalls
    /\ analysis_pc = "done"

\* the single lookup of the location found a page after
\* fetch_multiple_wikipedia_pages gave no related pages or raised
SinglePageFound ==
    prompt.built /\ location # <<>> /\ ~MultipleFoundPages /\ link_pages # <<>>

\* C22: the context text obtained while the prompt was built is embedded in
\* the prompt: when the single lookup of the location succeeds after
\* fetch_multiple_wikipedia_pages yielded no related pages, the text of that
\* page is in the HISTORICAL CONTEXT section, and the section is absent only
\* when no context text was obtained at all.
C22_ContextTextEmbedded ==
    /\ SinglePageFound => prompt.wikipedia_context = <<"single page">>
    /\ prompt.built /\ prompt.wikipedia_context = <<>> => link_pages = <<>>

\* the request returned from the return statement of lines 256-259 (414)
EnrichedRequest ==
    analysis_pc = "done" /\ analysis_result.status = "returned"
    /\ analysis_result.path = "model"

LinksOf(md) == IF "wikipedia_links" \in md.keys THEN md.wikipedia_links ELSE <<>>

\* the calls logged after the invocation of the model
CallsAfterModel ==
    LET v == CHOOSE i \in CallsTo(VisionCalls) : TRUE
    IN  SubSeq(calls, v + 1, Len(calls))

\* C23: a request that reaches the links takes exactly one of three
\* branches: (1) related pages were obtained while the prompt was built: they
\* become wikipedia_links and no further lookup is made; (2) a location but
\* no related pages: exactly one more fetch_wikipedia_context lookup of the
\* location and the topic extractor is not run; (3) no location: the topic
\* extractor runs, at most its first 3 topics are looked up with
\* fetch_wikipedia_page and the pages found become topic-typed links.
C23_LinkEnrichmentBranches ==
    /\ ~EnrichedRequest => link_lookups = <<>>
    /\ EnrichedRequest =>
          LET links == LinksOf(analysis_result.metadata)
          IN  IF link_pages # <<>>
              THEN /\ link_lookups = <<>>
                   /\ CallsAfterModel = <<>>
                   /\ links = link_pages
              ELSE IF location # <<>>
              THEN /\ Len(link_lookups) = 1
                   /\ link_lookups[1].fn = "fetch_wikipedia_context"
                   /\ link_lookups[1].arg = location
                   /\ CallsAfterModel = <<Call("fetch_wikipedia_context", location)>>
                   /\ links = IF link_lookups[1].outcome = "found"
                              THEN <<Link(link_lookups[1].title, "location")>>
                              ELSE <<>>
              ELSE /\ Len(link_lookups) \in 1 .. 4
                   /\ link_lookups[1].fn = "extract_topics_from_metadata"
                   /\ Len(CallsAfterModel) = Len(link_lookups) - 1
                   /\ \A i \in 2 .. Len(link_lookups) :
                         /\ link_lookups[i].fn = "fetch_wikipedia_page"
                         /\ link_lookups[i].arg =
                               extract_topics_from_metadata(analysis_result.metadata)[i - 1]
                         /\ CallsAfterModel[i - 1] =
                               Call("fetch_wikipedia_page", link_lookups[i].arg)
                   /\ \A i \in 1 .. Len(links) :
                         /\ links[i].type = "topic"
                         /\ \E j \in 2 .. Len(link_lookups) :
                               /\ link_lookups[j].outcome = "found"
                               /\ link_lookups[j].title = links[i].title
                   /\ Len(links) =
                         Cardinality({j \in 2 .. Len(link_lookups) :
                                         link_lookups[j].outcome = "found"})

\* no location: three topics were extracted and looked up, two pages were
\* found and became the links
C23_Witness ==
    /\ EnrichedRequest
    /\ location = <<>>
    /\ Len(link_lookups) = 4
    /\ Len(LinksOf(analysis_result.metadata)) = 2

\* a lookup made for the links, or the topic extraction, raised
LookupFailed == \E i \in 1 .. Len(link_lookups) : link_lookups[i].outcome = "raises"

WithoutLinks(md) ==
    [md EXCEPT !.keys = @ \ {"wikipedia_links"}, !.wikipedia_links = <<>>]

\* C24: a failure of a lookup or of the topic extraction after the payload
\* was parsed and normalized is swallowed: the request does not fall to the
\* mock result, the returned bounding box and every metadata key other than
\* wikipedia_links are what they are when the lookup finds nothing, and only
\* the link of the failed lookup is missing (the links collected from the
\* other topics are kept).
C24_LinkFailuresSwallowed ==
    analysis_pc = "done" /\ LookupFailed =>
        LET hits == SelectSeq(link_lookups, LAMBDA l : l.outcome = "found")
        IN  /\ analysis_result.status = "returned"
            /\ analysis_result.path = "model"
            /\ operation = "analyze_image" =>
                  analysis_result.bounding_box =
                      normalize_bounding_box(result.bounding_box.value, width, height)
            /\ WithoutLinks(analysis_result.metadata) =
                  AppendUserContext(EnsureEstimatedYear(result.metadata.value),
                                    user_context)
            /\ LinksOf(analysis_result.metadata) =
                  [i \in 1 .. Len(hits) |->
                      Link(hits[i].title, IF location = <<>> THEN "topic" ELSE "location")]

\* no location: the page of the first topic was found, the lookup of the
\* second raised, the page of the third was found, and both links are
\* returned
C24_Witness ==
    /\ analysis_pc = "done"
    /\ location = <<>>
    /\ Len(link_lookups) = 4
    /\ link_lookups[2].outcome = "found"
    /\ link_lookups[3].outcome = "raises"
    /\ link_lookups[4].outcome = "found"
    /\ Len(LinksOf(analysis_result.metadata)) = 2
    /\ analysis_result.path = "model"

(***************************************************************************)
(* Claim C25 (checked under SpecRestore)                                   *)
(***************************************************************************)
\* the year given by the precedence estimated_year, else year, else decade,
\* else "Unknown"
ResolvedYear(md) == EnsureEstimatedYear(md).estimated_year

\* C25: one precedence resolves the year everywhere: the year that
\* restore_image and generate_video_from_image put in their prompts is, for
\* every metadata mapping, the value that analyze_image and analyze_video
\* store as estimated_year: estimated_year, else year, else decade, else
\* "Unknown".
C25_OneYearPrecedence ==
    year_info # "none" => year_info = ResolvedYear(metadata)

(***************************************************************************)
(* Claim C26 (checked under SpecAnalyze)                                   *)
(***************************************************************************)
\* C26: on the path that returns the model's payload, a non-empty user
\* context is appended exactly once, as " User context: {text}", to the
\* notes of a metadata that has notes; without a user context the notes are
\* unchanged; a metadata without notes gets no notes.
C26_UserContextAppendedOnce ==
    EnrichedRequest =>
        LET given == result.metadata.value
            returned == analysis_result.metadata
        IN  /\ "notes" \in returned.keys <=> "notes" \in given.keys
            /\ returned.notes =
                  IF user_context # <<>> /\ "notes" \in given.keys
                  THEN given.notes \o UserContextLabel \o user_context
                  ELSE given.notes

\* a user context was supplied and the payload had notes
C26_Witness ==
    /\ EnrichedRequest
    /\ user_context # <<>>
    /\ "notes" \in result.metadata.value.keys
    /\ Len(analysis_result.metadata.notes) > Len(result.metadata.value.notes)

(***************************************************************************)
(* Claim C27 (checked under SpecFetch)                                     *)
(***************************************************************************)
\* C27: fetch_wikipedia_context looks up the text before the first comma of
\* the location first and "History of" that text second; the second lookup
\* is made only if the first found nothing, nothing is returned only if both
\* found nothing, and a returned text starts with the sentence naming the
\* location and the era and is at most 1000 characters long.
C27_ContextLookupOrder ==
    fetch_op = "fetch_wikipedia_context" =>
        LET cleaned == CleanedLocation(location)
            n == Len(requests)
        IN  /\ n <= 2
            /\ n >= 1 => requests[1].title = cleaned
            /\ n = 2 => requests[2].title = HistoryOf \o cleaned /\ ~requests[1].found
            /\ fetch_result.status # "raised"
            /\ fetch_result.status = "pending" => \A i \in 1 .. n : ~requests[i].found
            /\ fetch_result.status = "returned" =>
                  /\ n >= 1
                  /\ fetch_result.value.found = requests[n].found
                  /\ ~fetch_result.value.found => n = 2
                  /\ fetch_result.value.found =>
                        /\ TextLen(fetch_result.value.text) <= 1000
                        /\ Head(fetch_result.value.text).what = "Historical context for"
                        /\ Head(fetch_result.value.text).len =
                              Min(1000, 23 + Len(cleaned) + 8 + Len(era) + 2)

\* the first lookup found nothing, the second found a long page, and the
\* text returned is 1000 characters long
C27_Witness ==
    /\ fetch_op = "fetch_wikipedia_context"
    /\ fetch_result.status = "returned"
    /\ Len(requests) = 2
    /\ fetch_result.value.found
    /\ TextLen(fetch_result.value.text) = 1000

(***************************************************************************)
(* Claim C28 (checked under SpecRelated)                                   *)
(***************************************************************************)
\* the searches are issued in the order of search_queries; with three
\* titles accepted the loop is over, and the last title examined is the
\* third one accepted; the call returns after the third search or the third
\* title, not earlier
SearchesInOrder ==
    LET n == Len(searches)
    IN  /\ n <= 3
        /\ n >= 1 => searches[1].query = CleanedLocation(location) \o <<" ">> \o era
        /\ n >= 2 => searches[2].query = era \o <<" ">> \o CleanedLocation(location)
        /\ n >= 3 => searches[3].query = HistoryOf \o CleanedLocation(location)
        /\ Len(related_pages) <= 3
        /\ Len(related_pages) = 3 =>
              /\ related_pc \in {"return", "done"}
              /\ searches[n].kind = "titles"
              /\ searches[n].last = related_pages[3]
        /\ related_pc \in {"return", "done"} => n = 3 \/ Len(related_pages) = 3

\* a search keeps the titles accepted so far, and one that fails or answers
\* with another status adds nothing
SearchKeepsTitles ==
    Len(searches') > Len(searches) =>
        /\ Len(related_pages') >= Len(related_pages)
        /\ SubSeq(related_pages', 1, Len(related_pages)) = related_pages
        /\ searches'[Len(searches')].kind # "titles" => related_pages' = related_pages

OperationReports == CallsOf("generate_videos") \cup CallsOf("operations.get")

\* the last operation handed back is done, carries no error, has a response
\* with no filtered media and a video with a file reference whose download
\* and save succeed (the kind "video" of OperationKinds)
DoneWithVideo ==
    /\ OperationReports # {}
    /\ LET last == CHOOSE i \in OperationReports : \A k \in OperationReports : k <= i
       IN  video_calls[last].outcome = "video"

\* C29: generate_video_from_image returns the output path exactly when the
\* operation is reported done, at the submission or at any poll up to the
\* 30th and last one, with no error, a response with no filtered media, a
\* generated video with a file reference and a download and save that
\* succeed; an operation that becomes done at the last poll is accepted, and
\* an operation done at the submission is never polled.
C29_VideoReturnedWhenDone ==
    /\ PollInterval * Cardinality(CallsOf("operations.get")) <= max_wait_time
    /\ video_pc = "done" => (video_result = VideoReturned("output_path") <=> DoneWithVideo)
    /\ video_calls # <<>> /\ video_calls[1].outcome # "running" =>
          CallsOf("sleep") \cup CallsOf("operations.get") = {}

\* the operation became done at the last poll, after 300 seconds, and the
\* output path was returned
C29_Witness ==
    /\ video_pc = "done"
    /\ wait_time = max_wait_time
    /\ PollInterval * Cardinality(CallsOf("operations.get")) = max_wait_time
    /\ video_result = VideoReturned("output_path")

(***************************************************************************)
(* Claim C30 (checked under SpecFetch)                                     *)
(***************************************************************************)
\* the requests of the loop over the topics are the last ones logged: the
\* topics whose page was found, in the order given
TopicsFound ==
    LET first == Len(requests) - Len(fetch_topics)
    IN  Pick(fetch_topics, {j \in 1 .. Len(fetch_topics) : requests[first + j].found}, 1)

\* the links a request with a location attaches are the related pages, as
\* they are
LinksKeepOrder ==
    EnrichedRequest /\ link_pages # <<>> =>
        LinksOf(analysis_result.metadata) = link_pages

\* C30: the related_pages of fetch_multiple_wikipedia_pages hold at most one
\* entry typed "location", first, then one entry typed "topic" for each
\* topic whose page was found, in the order the topics were given; a topic
\* whose page was not found is left out and the others stay, so the list has
\* at most 1 + (number of topics) entries; the wikipedia_links of a request
\* with a location keep that order.
C30_RelatedPagesOrder ==
    /\ fetch_op = "fetch_multiple_wikipedia_pages" /\ fetch_result.status = "returned" =>
          LET pages == fetch_result.value.related_pages
              location_data == fetch_result.value.location
          IN  /\ Len(pages) <= 1 + Len(fetch_topics)
              /\ \A i \in 1 .. Len(pages) : pages[i].type = "location" => i = 1
              /\ pages = (IF location_data.found
                          THEN <<Link(location_data.title, "location")>> ELSE <<>>)
                         \o Links(TopicsFound, "topic")
    /\ LinksKeepOrder

\* the location page and the pages of the first and the third of three
\* topics were found, the page of the second was not
C30_Witness ==
    /\ fetch_op = "fetch_multiple_wikipedia_pages"
    /\ fetch_result.status = "returned"
    /\ Len(fetch_topics) = 3
    /\ fetch_result.value.location.found
    /\ Len(fetch_result.value.related_pages) = 3
    /\ fetch_result.value.related_pages[3].title = fetch_topics[3]

(***************************************************************************)
(* Claim C31 (checked under SpecAnalyze)                                   *)
(***************************************************************************)
\* C31: the box of the mock result of analyze_image is the box the
\* normalizer gives for a payload without a bounding box: for every image
\* size W >= 1, H >= 1 the box returned by fallback_mock_analysis equals
\* normalize_bounding_box({}, W, H).
C31_MockBoxIsDefaultBox ==
    /\ operation = "analyze_image"
    /\ analysis_result.status = "returned"
    /\ analysis_result.path \in {"unavailable", "error"}
    => analysis_result.bounding_box = normalize_bounding_box(EmptyBox, width, height)

(***************************************************************************)
(* Claim C32 (checked under SpecNormalizeCrop)                             *)
(***************************************************************************)
\* the crop of the default box of an image with sides up to MaxSide is that
\* box
CropKeepsDefaultBoxes ==
    \A w \in 1 .. MaxSide :
        LET h == MaxSide + 1 - w
            box == normalize_bounding_box(EmptyBox, w, h)
        IN  crop_image(box, w, h) =
                [left |-> box.x, top |-> box.y, right |-> box.x + box.width,
                 bottom |-> box.y + box.height, done |-> TRUE]

\* C32: on a box normalize_bounding_box returned for a W x H image, the
\* clamp of crop_image changes nothing: crop_image on a W x H image crops
\* exactly the rectangle (x, y, x + width, y + height) of that box, and the
\* rectangle is not empty.
C32_CropKeepsNormalizedBox ==
    /\ CropKeepsDefaultBoxes
    /\ cropped.done =>
            /\ normalized.error = "none"
            /\ cropped.left = normalized.x
            /\ cropped.top = normalized.y
            /\ cropped.right = normalized.x + normalized.width
            /\ cropped.bottom = normalized.y + normalized.height
            /\ cropped.left < cropped.right
            /\ cropped.top < cropped.bottom

\* the crop of a box the normalizer had to clamp on both sides (x below 0,
\* width beyond the image), which reaches the right edge of the image
C32_Witness ==
    /\ cropped.done
    /\ bbox.x = JInt(-1)
    /\ bbox.width = JInt(MaxDim + 1)
    /\ bbox.y = Missing
    /\ image_width = MaxDim
    /\ cropped.left = 0
    /\ cropped.right = MaxDim

(***************************************************************************)
(* Claim C33 (checked under SpecTopics)                                    *)
(***************************************************************************)
\* C33: whatever the metadata texts, no topic extract_topics_from_metadata
\* returns is a phrase of the skip-set ("United States", "United Kingdom",
\* "New York", "Los Angeles", "World War", "World War I", "World War II"),
\* whether pass 1 or pass 2 found it.
C33_NoSkippedPhraseReturned ==
    extracted_topics.returned =>
        \A i \in 1 .. Len(extracted_topics.topics) :
            extracted_topics.topics[i] \notin skip_words

(***************************************************************************)
(* Claim C34 (checked under SpecFetch)                                     *)
(***************************************************************************)
\* no two entries of a list of links have the same title
DistinctTitles(pages) ==
    \A i \in 1 .. Len(pages) : \A j \in 1 .. Len(pages) :
        pages[i].title = pages[j].title => i = j

\* C34: no two entries of the related_pages that
\* fetch_multiple_wikipedia_pages builds have the same title, whatever the
\* location, the topics and the outcome of each page lookup (also when the
\* location lookup resolves to the "History of {location}" page and that
\* title is among the topics), and so no two of the wikipedia_links that
\* analyze_image and analyze_video attach have the same title.
C34_LinksHaveDistinctTitles ==
    /\ fetch_op = "fetch_multiple_wikipedia_pages" /\ fetch_result.status = "returned" =>
          DistinctTitles(fetch_result.value.related_pages)
    /\ analysis_result.status = "returned" =>
          DistinctTitles(LinksOf(analysis_result.metadata))

=============================================================================
